---- MODULE Spec2Model ----
(***************************************************************************)
(* A model of react-native-apple-foundation-models: the LLMSession object  *)
(* (src/src/LLMSession.ts), the error normalizer (src/src/errors.ts) and   *)
(* the generation dispatcher generateText / generateObject                 *)
(* (src/unnamed/part_007), against an abstract native boundary whose       *)
(* replies are chosen nondeterministically.                                *)
(*                                                                         *)
(* JavaScript values are tagged records: Undef, Str(s), Num(n).  A string  *)
(* is a sequence of symbols; a symbol is one character (prompts,           *)
(* instructions, session ids, so that String.prototype.trim is computed    *)
(* and not assumed) or one opaque piece of text (an error code, a          *)
(* message).  The empty string is <<>>.                                    *)
(***************************************************************************)
EXTENDS Naturals, Sequences, FiniteSets, TLC

\* ------------------------------------------------------------- bounds
\* Most whitespace characters on either side of a raw string a caller passes.
MaxPad == 1
\* Most ask() calls of one LLMSession awaiting the native reply at once.
MaxInflight == 2

\* ------------------------------------------------------------- JS values
Undef == [t |-> "undefined"]
Str(s) == [t |-> "string", s |-> s]
Num(n) == [t |-> "number", n |-> n]

IsStr(v) == v.t = "string"

\* Whitespace, as String.prototype.trim sees it.
IsSpace(c) == c = " "

Pad(n) == [i \in 1..n |-> " "]

\* The text between the leading and trailing whitespace of a raw string:
\* nothing, or one character.
Cores == {<<>>, <<"a">>}

\* The raw strings callers pass.
Strings == {Pad(l) \o c \o Pad(r) : l \in 0..MaxPad, r \in 0..MaxPad, c \in Cores}

\* What a caller may pass for an optional string parameter.
OptStrings == {Undef} \cup {Str(s) : s \in Strings}

RECURSIVE TrimStart(_)
TrimStart(s) ==
  IF s = <<>> THEN <<>>
  ELSE IF IsSpace(Head(s)) THEN TrimStart(Tail(s)) ELSE s

RECURSIVE TrimEnd(_)
TrimEnd(s) ==
  IF s = <<>> THEN <<>>
  ELSE IF IsSpace(s[Len(s)]) THEN TrimEnd(SubSeq(s, 1, Len(s) - 1)) ELSE s

\* String.prototype.trim
Trim(s) == TrimEnd(TrimStart(s))

\* Mutant: the trim is forgotten.
OptTrim_NoTrim(v) == v

\* v?.trim(): undefined stays undefined.
OptTrim(v) == IF IsStr(v) THEN Str(Trim(v.s)) ELSE Undef

\* JS truthiness of an optional string: undefined and "" are falsy.
Truthy(v) == IsStr(v) /\ v.s # <<>>

\* v || undefined
OrUndefined(v) == IF Truthy(v) THEN v ELSE Undef

\* A string of one opaque symbol: an error code, a message, a generated text.
Atom(a) == Str(<<a>>)

\* ------------------------------------------------------------- errors.ts
ERR_TEXT_GENERATION_UNSUPPORTED == Atom("ERR_TEXT_GENERATION_UNSUPPORTED")
ERR_TEXT_PROMPT_INVALID == Atom("ERR_TEXT_PROMPT_INVALID")
ERR_TEXT_GENERATION_INVALID_ARGUMENT == Atom("ERR_TEXT_GENERATION_INVALID_ARGUMENT")
ERR_TEXT_GENERATION_CANCELED == Atom("ERR_TEXT_GENERATION_CANCELED")
ERR_TEXT_GENERATION_TIMEOUT == Atom("ERR_TEXT_GENERATION_TIMEOUT")
ERR_TEXT_GENERATION_RUNTIME == Atom("ERR_TEXT_GENERATION_RUNTIME")
ERR_TEXT_GENERATION_MODEL_UNAVAILABLE == Atom("ERR_TEXT_GENERATION_MODEL_UNAVAILABLE")

TEXT_GENERATION_ERROR_CODES ==
  { ERR_TEXT_GENERATION_UNSUPPORTED,
    ERR_TEXT_PROMPT_INVALID,
    ERR_TEXT_GENERATION_INVALID_ARGUMENT,
    ERR_TEXT_GENERATION_CANCELED,
    ERR_TEXT_GENERATION_TIMEOUT,
    ERR_TEXT_GENERATION_RUNTIME,
    ERR_TEXT_GENERATION_MODEL_UNAVAILABLE }

\* The model-availability codes the README lists among the codes of a
\* TextGenerationError.
ERR_TEXT_MODEL_DEVICE_NOT_ELIGIBLE == Atom("ERR_TEXT_MODEL_DEVICE_NOT_ELIGIBLE")
ERR_TEXT_MODEL_NOT_ENABLED == Atom("ERR_TEXT_MODEL_NOT_ENABLED")
ERR_TEXT_MODEL_NOT_READY == Atom("ERR_TEXT_MODEL_NOT_READY")
ERR_TEXT_MODEL_UNKNOWN == Atom("ERR_TEXT_MODEL_UNKNOWN")

ModelAvailabilityCodes ==
  { ERR_TEXT_MODEL_DEVICE_NOT_ELIGIBLE, ERR_TEXT_MODEL_NOT_ENABLED,
    ERR_TEXT_MODEL_NOT_READY, ERR_TEXT_MODEL_UNKNOWN }

ERR_OBJECT_GENERATION_UNSUPPORTED == Atom("ERR_OBJECT_GENERATION_UNSUPPORTED")
ERR_OBJECT_PROMPT_INVALID == Atom("ERR_OBJECT_PROMPT_INVALID")
ERR_OBJECT_SCHEMA_INVALID == Atom("ERR_OBJECT_SCHEMA_INVALID")
ERR_OBJECT_GENERATION_DECODE_FAILED == Atom("ERR_OBJECT_GENERATION_DECODE_FAILED")
ERR_OBJECT_GENERATION_RUNTIME == Atom("ERR_OBJECT_GENERATION_RUNTIME")

ObjectGenerationErrorCode ==
  { ERR_OBJECT_GENERATION_UNSUPPORTED,
    ERR_OBJECT_PROMPT_INVALID,
    ERR_OBJECT_SCHEMA_INVALID,
    ERR_OBJECT_GENERATION_DECODE_FAILED,
    ERR_OBJECT_GENERATION_RUNTIME }

\* A thrown value.  cls is what instanceof and typeof see of it:
\* "TextGenerationError", "Error" (any other Error), "object" (a plain
\* object) or "primitive" (a string, a number, null, undefined), whose
\* property reads all give undefined.
Thrown(cls, code, message, cause, nativeCode, nativeDomain) ==
  [cls |-> cls, code |-> code, message |-> message, cause |-> cause,
   nativeCode |-> nativeCode, nativeDomain |-> nativeDomain]

\* new Error(message)
NewError(message) == Thrown("Error", Undef, message, Undef, Undef, Undef)

\* new TextGenerationError({code, message, cause, nativeCode, nativeDomain})
TextGenerationError(code, message, cause, nativeCode, nativeDomain) ==
  Thrown("TextGenerationError", code, message, cause, nativeCode, nativeDomain)

InstanceOfError(e) == e.cls \in {"Error", "TextGenerationError"}

isNativeErrorLike(error) ==
  /\ error.cls # "primitive"
  /\ IsStr(error.code)
  /\ IsStr(error.message)

\* Mutant: a value that is already a TextGenerationError is wrapped again.
toTextGenerationError_Rewrap(error) ==
  TextGenerationError(
    IF isNativeErrorLike(error) /\ error.code \in TEXT_GENERATION_ERROR_CODES
    THEN error.code ELSE ERR_TEXT_GENERATION_RUNTIME,
    IF InstanceOfError(error) THEN error.message
    ELSE Atom("Text generation failed."),
    IF InstanceOfError(error) THEN error ELSE Undef,
    Undef,
    Undef)

toTextGenerationError(error) ==
  IF error.cls = "TextGenerationError" THEN error
  ELSE IF isNativeErrorLike(error) /\ error.code \in TEXT_GENERATION_ERROR_CODES
  THEN TextGenerationError(
         error.code,
         error.message,
         error.cause,
         IF error.nativeCode.t = "number" THEN error.nativeCode ELSE Undef,
         IF error.nativeDomain.t = "string" THEN error.nativeDomain ELSE Undef)
  ELSE TextGenerationError(
         ERR_TEXT_GENERATION_RUNTIME,
         IF isNativeErrorLike(error) /\ Truthy(error.message)
         THEN error.message
         ELSE IF InstanceOfError(error) THEN error.message
         ELSE Atom("Text generation failed."),
         IF InstanceOfError(error) THEN error ELSE Undef,
         Undef,
         Undef)

isTextGenerationError(error) == error.cls = "TextGenerationError"

\* ------------------------------------------------------------- JSON
\* The other JavaScript values: null, booleans, arrays, and objects, whose
\* props is a function from property names to values.
Null == [t |-> "null"]
Bool(b) == [t |-> "boolean", b |-> b]
Arr(items) == [t |-> "array", items |-> items]
Obj(props) == [t |-> "object", props |-> props]

\* typeof v === "object" && v != null
IsObjectLike(v) == v.t \in {"object", "array"}

\* Object.hasOwn(o, k), for an object or an array (whose keys are indices).
HasOwn(o, k) == o.t = "object" /\ k \in DOMAIN o.props

\* o?.k: the property, undefined when o has none or is no object.
Get(o, k) == IF HasOwn(o, k) THEN o.props[k] ELSE Undef

\* v != null
NotNullish(v) == v.t \notin {"undefined", "null"}

\* Property names are one-symbol strings; KeyOf is the name such a string
\* gives, and NoProps the properties of {}.
KeyOf(v) == v.s[1]
NoProps == [k \in {} |-> Undef]

\* A JSON text is a sequence of tokens: punctuation, literals (a string, a
\* number, true, false, null, with the value they denote) and words, which
\* are no JSON.
Punct(c) == [k |-> "punct", c |-> c]
Lit(v) == [k |-> "lit", v |-> v]
Word(w) == [k |-> "word", w |-> w]

IsLit(tok) == tok.k = "lit"
IsPunct(tok, c) == tok.k = "punct" /\ tok.c = c

ParseFail == [ok |-> FALSE]
Parsed(v, next) == [ok |-> TRUE, val |-> v, next |-> next]

\* The recursive descent of JSON.parse: the value that starts at toks[pos].
RECURSIVE ParseValue(_, _)
RECURSIVE ParseElements(_, _, _)
RECURSIVE ParseMembers(_, _, _)

ParseValue(toks, pos) ==
  IF pos > Len(toks) THEN ParseFail
  ELSE IF IsLit(toks[pos]) THEN Parsed(toks[pos].v, pos + 1)
  ELSE IF IsPunct(toks[pos], "[") THEN
    IF pos + 1 <= Len(toks) /\ IsPunct(toks[pos + 1], "]")
    THEN Parsed(Arr(<<>>), pos + 2)
    ELSE ParseElements(toks, pos + 1, <<>>)
  ELSE IF IsPunct(toks[pos], "{") THEN
    IF pos + 1 <= Len(toks) /\ IsPunct(toks[pos + 1], "}")
    THEN Parsed(Obj(NoProps), pos + 2)
    ELSE ParseMembers(toks, pos + 1, NoProps)
  ELSE ParseFail

\* value ("," value)* "]"
ParseElements(toks, pos, acc) ==
  LET v == ParseValue(toks, pos) IN
  IF ~v.ok \/ v.next > Len(toks) THEN ParseFail
  ELSE IF IsPunct(toks[v.next], "]")
       THEN Parsed(Arr(Append(acc, v.val)), v.next + 1)
  ELSE IF IsPunct(toks[v.next], ",")
       THEN ParseElements(toks, v.next + 1, Append(acc, v.val))
  ELSE ParseFail

\* string ":" value ("," string ":" value)* "}"; a repeated key keeps the
\* later value.
ParseMembers(toks, pos, acc) ==
  IF pos + 1 > Len(toks) THEN ParseFail
  ELSE IF ~(IsLit(toks[pos]) /\ IsStr(toks[pos].v) /\ IsPunct(toks[pos + 1], ":"))
  THEN ParseFail
  ELSE
    LET key == KeyOf(toks[pos].v)
        v == ParseValue(toks, pos + 2)
        props == [k \in (DOMAIN acc) \cup {key} |->
                    IF k = key THEN v.val ELSE acc[k]]
    IN IF ~v.ok \/ v.next > Len(toks) THEN ParseFail
       ELSE IF IsPunct(toks[v.next], "}") THEN Parsed(Obj(props), v.next + 1)
       ELSE IF IsPunct(toks[v.next], ",") THEN ParseMembers(toks, v.next + 1, props)
       ELSE ParseFail

\* JSON.parse(text): [ok, val]; ok is FALSE where JSON.parse throws a
\* SyntaxError.
JSONParse(text) ==
  LET r == ParseValue(text, 1) IN
  IF r.ok /\ r.next = Len(text) + 1 THEN [ok |-> TRUE, val |-> r.val]
  ELSE [ok |-> FALSE, val |-> Undef]

\* JSON.stringify(v), as tokens.  Members come in one fixed order (the order
\* of insertion is not part of a value here); a member whose value is
\* undefined is left out, an undefined array element is written null.
RECURSIVE TokensOf(_)
RECURSIVE ElementTokens(_, _)
RECURSIVE MemberTokens(_, _)

TokensOf(v) ==
  IF v.t = "array"
  THEN <<Punct("[")>> \o ElementTokens(v.items, 1) \o <<Punct("]")>>
  ELSE IF v.t = "object"
  THEN <<Punct("{")>>
       \o MemberTokens(v.props, {k \in DOMAIN v.props : v.props[k] # Undef})
       \o <<Punct("}")>>
  ELSE IF v.t = "undefined" THEN <<Lit(Null)>>
  ELSE <<Lit(v)>>

ElementTokens(items, i) ==
  IF i > Len(items) THEN <<>>
  ELSE TokensOf(items[i])
       \o (IF i < Len(items) THEN <<Punct(",")>> ELSE <<>>)
       \o ElementTokens(items, i + 1)

MemberTokens(props, keys) ==
  IF keys = {} THEN <<>>
  ELSE LET k == CHOOSE x \in keys : TRUE IN
       <<Lit(Atom(k)), Punct(":")>> \o TokensOf(props[k])
       \o (IF keys # {k} THEN <<Punct(",")>> ELSE <<>>)
       \o MemberTokens(props, keys \ {k})

JSONStringify(v) == IF v.t = "undefined" THEN Undef ELSE Str(TokensOf(v))

\* ------------------------------------------------------------- schema validators
AllowedTypes ==
  {Atom("string"), Atom("number"), Atom("boolean"), Atom("array"), Atom("object")}

\* Mutant: only the schema's own type tag is looked at.
validateJSONSchema_Shallow(schema) ==
  /\ Truthy(Get(schema, "type"))
  /\ Get(schema, "type") \in AllowedTypes
  /\ Get(schema, "type") = Atom("object") => IsObjectLike(Get(schema, "properties"))

\* validateJSONSchema(schema): TRUE where it returns, FALSE where it throws
\* new Error("ERR_OBJECT_SCHEMA_INVALID").
RECURSIVE validateJSONSchema(_)
validateJSONSchema(schema) ==
  LET t == Get(schema, "type") IN
  /\ Truthy(t)
  /\ t \in AllowedTypes
  /\ t = Atom("array") => validateJSONSchema(Get(schema, "items"))
  /\ t = Atom("object") =>
       LET props == Get(schema, "properties") IN
       /\ IsObjectLike(props)
       /\ props.t = "object" =>
            \A key \in DOMAIN props.props : validateJSONSchema(props.props[key])
       /\ props.t = "array" =>
            \A i \in 1..Len(props.items) : validateJSONSchema(props.items[i])

\* validateAgainstSchema(value, schema), for a schema validateJSONSchema
\* has accepted and whose properties, as its type has it, is no array.
RECURSIVE validateAgainstSchema(_, _)
validateAgainstSchema(value, schema) ==
  LET type == Get(schema, "type") IN
  IF type = Atom("string") THEN
    LET minLength == Get(schema, "minLength")
        maxLength == Get(schema, "maxLength")
        enum == Get(schema, "enum")
    IN /\ value.t = "string"
       /\ ~(NotNullish(minLength) /\ Len(value.s) < minLength.n)
       /\ ~(NotNullish(maxLength) /\ Len(value.s) > maxLength.n)
       /\ ~(enum.t = "array" /\ \A i \in 1..Len(enum.items) : enum.items[i] # value)
  ELSE IF type = Atom("number") THEN
    LET minimum == Get(schema, "minimum")
        maximum == Get(schema, "maximum")
    IN /\ value.t = "number"
       /\ ~(NotNullish(minimum) /\ value.n < minimum.n)
       /\ ~(NotNullish(maximum) /\ value.n > maximum.n)
  ELSE IF type = Atom("boolean") THEN value.t = "boolean"
  ELSE IF type = Atom("array") THEN
    /\ value.t = "array"
    /\ \A i \in 1..Len(value.items) :
         validateAgainstSchema(value.items[i], Get(schema, "items"))
  ELSE IF type = Atom("object") THEN
    /\ value.t = "object"
    /\ LET required == Get(schema, "required")
           properties == Get(schema, "properties").props
           isRequired(k) ==
             /\ required.t = "array"
             /\ \E i \in 1..Len(required.items) : required.items[i] = Atom(k)
       IN \A k \in DOMAIN properties :
            IF ~HasOwn(value, k) THEN ~isRequired(k)
            ELSE validateAgainstSchema(value.props[k], properties[k])
  ELSE FALSE

\* ------------------------------------------------------------- state
VARIABLES
  \* LLMSession (src/src/LLMSession.ts)
  created,        \* LLMSession.create has returned the session
  sessionId,      \* this._sessionId
  instructions,   \* this._instructions
  inflight,       \* native generateText requests of ask() awaiting a reply,
                  \* in dispatch order
  \* history of the session, read only by the properties
  last,           \* the most recent operation or native reply
  lastSet,        \* instructions as left by the latest create/reset/destroy
  destroyed,      \* destroy() ran, and no reset or dispatched ask since
  seeded,         \* create was given a session id that survives trimming
  everSucceeded,  \* some ask of this session has succeeded
  \* generateText / generateObject (src/unnamed/part_007)
  nativeSupported, \* the native module has a generateObject function
  call,           \* the public call made last: the function and its options
  pc,             \* where that call is: "idle" (none, or settled), awaiting
                  \* the native generateObject ("object"), awaiting the
                  \* native generateText for generateText ("text") or for
                  \* generateObject's text path ("fallback")
  nativeCalls,    \* the native calls the call has made, in order
  replies,        \* the native replies the call has got, in order
  outcome,        \* what the caller got: pending, resolved or rejected
  \* toTextGenerationError (src/src/errors.ts)
  raw,            \* the value given to the normalizer
  normalized,     \* what the normalizer returned for it, and then for each
                  \* of its own results in turn
  \* the platform and getTextModelAvailability (src/unnamed/part_007)
  platform,       \* where the module runs
  modelAvailability, \* SystemLanguageModel.default.availability, where
                  \* there is one
  hasAvailabilityMethod, \* the native module has getTextModelAvailability
  availability,   \* the call of getTextModelAvailability: where it is and
                  \* what its caller got
  \* validateJSONSchema / validateAgainstSchema (src/unnamed/part_007)
  givenSchema,    \* the schema given to the validators
  givenValue,     \* the value given to validateAgainstSchema
  shapeVerdict,   \* whether validateJSONSchema returned (TRUE) or threw
  valueVerdict,   \* what validateAgainstSchema returned
  \* TextSessionStore (src/unnamed/part_008)
  entries,        \* the store's entries, by session id
  built,          \* how many native sessions makeSession has built
  handles,        \* the handle the store gave each request in flight
  storeLast,      \* what the store did last, read only by the properties
  \* useLLMSession (src/src/AppleFoundationModels.types.ts)
  hookParams,     \* instructions, initialId and autoCreate of the hook
  mountPc,        \* where the mount effect is
  isAvailable,    \* the hook's state values
  hookStatus,
  hookError,
  history,
  sessionRef,     \* sessionRef.current: 0 for null, else a session of
  hookSessions,   \* the LLMSession objects the hook has created
  lastPromptRef,  \* lastPromptRef.current
  hookAsks,       \* the hook's asks that are awaiting something
  asked,          \* how many asks the hook has been given
  hookLast,       \* what the call the hook settled last gave its caller
  promised,       \* the instructions setInstructions was last given
  destroyedHeld   \* the session id the session held when destroy forgot it

sessionVars ==
  <<created, sessionId, instructions, inflight, last, lastSet, destroyed,
    seeded, everSucceeded>>

genVars == <<nativeSupported, call, pc, nativeCalls, replies, outcome>>

normVars == <<raw, normalized>>

platformVars == <<platform, modelAvailability, hasAvailabilityMethod, availability>>

validVars == <<givenSchema, givenValue, shapeVerdict, valueVerdict>>

storeVars == <<entries, built, handles, storeLast>>

hookVars ==
  <<hookParams, mountPc, isAvailable, hookStatus, hookError, history,
    sessionRef, hookSessions, lastPromptRef, hookAsks, asked, hookLast,
    promised, destroyedHeld>>

vars ==
  <<sessionVars, genVars, normVars, platformVars, validVars, storeVars, hookVars>>

\* ------------------------------------------------------------- native boundary
\* The text a successful native generateText returns.
NativeTexts == {Atom("generated text")}

\* Session ids a native reply may carry: one a caller can also have seeded,
\* one only the native layer knows.
NativeIds == {Str(<<"a">>), Str(<<"n">>)}

\* NativeTextGenerationResult
NativeTextResults == [text : NativeTexts, sessionId : NativeIds]

\* What a native method may reject with: the coded exceptions of the iOS and
\* Android modules, the uncoded Error of the web module, a coded error outside
\* the text code set, and a thrown non-object.
NativeErrors ==
  { Thrown("Error", ERR_TEXT_GENERATION_UNSUPPORTED,
           Atom("Text generation is not supported on Android."),
           Undef, Undef, Undef),
    Thrown("Error", ERR_TEXT_GENERATION_TIMEOUT, Atom("timed out"),
           Atom("NSError"), Num(4), Atom("FoundationModels")),
    Thrown("Error", Undef,
           Atom("Text generation is not supported in web environments."),
           Undef, Undef, Undef),
    Thrown("Error", ERR_OBJECT_GENERATION_UNSUPPORTED,
           Atom("Structured generation is not supported on Android."),
           Undef, Undef, Undef),
    Thrown("primitive", Undef, Undef, Undef, Undef, Undef) }

\* ------------------------------------------------------------- LLMSession
\* CreateLLMSessionOptions
CreateLLMSessionOptions == [instructions : OptStrings, sessionId : OptStrings]

\* Mutant: the request is built without the session's instructions.
NativeTextGenerationOptions_NoSystem(prompt, system, sid) ==
  [prompt |-> prompt, system |-> Undef, sessionId |-> sid]

\* NativeTextGenerationOptions as ask() builds it.  temperature and
\* maxOutputTokens are copied from the caller unread and are left out.
NativeTextGenerationOptions(prompt, system, sid) ==
  [prompt |-> prompt, system |-> system, sessionId |-> sid]

NoRequest == [prompt |-> Undef]

Pending == [kind |-> "pending"]
Resolved(v) == [kind |-> "resolved", value |-> v]
Rejected(e) == [kind |-> "rejected", error |-> e]

\* One entry of the session's history: the operation, its argument, the
\* native request it dispatched, what its caller got, and whether it is an
\* ask that came right after a reset.  A reset's argument comes with the id
\* the session had; a native reply's with the id its request had sent, the
\* id the session held when the reply came, its place among the requests
\* then in flight (index of `of`, in dispatch order), and whether the reply
\* before it answered a later ask.
Event(op, arg, request, result) ==
  [op |-> op, arg |-> arg, request |-> request, result |-> result,
   afterReset |-> (op = "ask" /\ last.op = "reset")]

RemoveAt(q, i) == SubSeq(q, 1, i - 1) \o SubSeq(q, i + 1, Len(q))

\* Mutant: the instructions are stored as given.
NormalizeInstructions_AsGiven(v) == v

\* const value = instructions?.trim(); value || undefined
NormalizeInstructions(v) == OrUndefined(OptTrim(v))

\* sessionId?.trim() || undefined
NormalizeSessionId(v) == OrUndefined(OptTrim(v))

\* Mutant: the seed id is stored as given, neither trimmed nor emptied.
Create_SeedAsGiven(options) ==
  /\ ~created
  /\ created' = TRUE
  /\ instructions' = NormalizeInstructions(options.instructions)
  /\ sessionId' = options.sessionId
  /\ last' = Event("create", options, NoRequest, Undef)
  /\ lastSet' = instructions'
  /\ seeded' = (IsStr(options.sessionId) /\ Trim(options.sessionId.s) # <<>>)
  /\ UNCHANGED <<inflight, destroyed, everSucceeded>>
  /\ UNCHANGED <<genVars, normVars, platformVars, validVars, storeVars, hookVars>>

\* LLMSession.create(options): the private constructor; no native call.
Create(options) ==
  /\ ~created
  /\ created' = TRUE
  /\ instructions' = NormalizeInstructions(options.instructions)
  /\ sessionId' = NormalizeSessionId(options.sessionId)
  /\ last' = Event("create", options, NoRequest, Undef)
  /\ lastSet' = instructions'
  /\ seeded' = (IsStr(options.sessionId) /\ Trim(options.sessionId.s) # <<>>)
  /\ UNCHANGED <<inflight, destroyed, everSucceeded>>
  /\ UNCHANGED <<genVars, normVars, platformVars, validVars, storeVars, hookVars>>

\* reset({instructions})
Reset(value) ==
  /\ created
  /\ instructions' = NormalizeInstructions(value)
  /\ last' = Event("reset", [value |-> value, id |-> sessionId], NoRequest, Undef)
  /\ lastSet' = instructions'
  /\ destroyed' = FALSE
  /\ UNCHANGED <<created, sessionId, inflight, seeded, everSucceeded>>
  /\ UNCHANGED <<genVars, normVars, platformVars, validVars, storeVars, hookVars>>

\* destroy()
Destroy ==
  /\ created
  /\ sessionId' = Undef
  /\ instructions' = Undef
  /\ last' = Event("destroy", Undef, NoRequest, Undef)
  /\ lastSet' = instructions'
  /\ destroyed' = TRUE
  /\ UNCHANGED <<created, inflight, seeded, everSucceeded>>
  /\ UNCHANGED <<genVars, normVars, platformVars, validVars, storeVars, hookVars>>

\* ask({prompt}) up to its await: the prompt check, then the native call.
Ask(prompt) ==
  /\ created
  /\ LET trimmed == OptTrim(prompt) IN
     IF ~Truthy(trimmed)
     THEN /\ last' = Event("ask", prompt, NoRequest,
                 Rejected(toTextGenerationError(
                   Thrown("object", ERR_TEXT_PROMPT_INVALID,
                          Atom("Prompt must be a non-empty string."),
                          Undef, Undef, Undef))))
          /\ UNCHANGED <<inflight, destroyed>>
     ELSE /\ Len(inflight) < MaxInflight
          /\ LET options ==
                   NativeTextGenerationOptions(trimmed, instructions, sessionId)
             IN /\ inflight' = Append(inflight, options)
                /\ last' = Event("ask", prompt, options, Pending)
          /\ destroyed' = FALSE
  /\ UNCHANGED <<created, sessionId, instructions, lastSet, seeded,
                 everSucceeded>>
  /\ UNCHANGED <<genVars, normVars, platformVars, validVars, storeVars, hookVars>>

\* Mutant: the first reply's id is kept, later replies do not overwrite it.
AskResolve_FirstWins(i, result) ==
  /\ i \in 1..Len(inflight)
  /\ sessionId' = IF sessionId = Undef THEN result.sessionId ELSE sessionId
  /\ inflight' = RemoveAt(inflight, i)
  /\ last' = Event("resolve",
                   [result |-> result, sent |-> inflight[i].sessionId,
                    held |-> sessionId, of |-> Len(inflight),
                    overtaken |-> (last.op = "resolve" /\ i < last.arg.index),
                    index |-> i],
                   NoRequest, Resolved(result.text))
  /\ everSucceeded' = TRUE
  /\ UNCHANGED <<created, instructions, lastSet, destroyed, seeded>>
  /\ UNCHANGED <<genVars, normVars, platformVars, validVars, storeVars, hookVars>>

\* ask() after its await, the native call having resolved with result.
AskResolve(i, result) ==
  /\ i \in 1..Len(inflight)
  /\ sessionId' = result.sessionId
  /\ inflight' = RemoveAt(inflight, i)
  /\ last' = Event("resolve",
                   [result |-> result, sent |-> inflight[i].sessionId,
                    held |-> sessionId, of |-> Len(inflight),
                    overtaken |-> (last.op = "resolve" /\ i < last.arg.index),
                    index |-> i],
                   NoRequest, Resolved(result.text))
  /\ everSucceeded' = TRUE
  /\ UNCHANGED <<created, instructions, lastSet, destroyed, seeded>>
  /\ UNCHANGED <<genVars, normVars, platformVars, validVars, storeVars, hookVars>>

\* Mutant: the native error is rethrown as it came.
AskReject_Raw(i, error) ==
  /\ i \in 1..Len(inflight)
  /\ inflight' = RemoveAt(inflight, i)
  /\ last' = Event("reject", error, NoRequest, Rejected(error))
  /\ UNCHANGED <<created, sessionId, instructions, lastSet, destroyed,
                 seeded, everSucceeded>>
  /\ UNCHANGED <<genVars, normVars, platformVars, validVars, storeVars, hookVars>>

\* ask() after its await, the native call having rejected with error.
AskReject(i, error) ==
  /\ i \in 1..Len(inflight)
  /\ inflight' = RemoveAt(inflight, i)
  /\ last' = Event("reject", error, NoRequest,
                   Rejected(toTextGenerationError(error)))
  /\ UNCHANGED <<created, sessionId, instructions, lastSet, destroyed,
                 seeded, everSucceeded>>
  /\ UNCHANGED <<genVars, normVars, platformVars, validVars, storeVars, hookVars>>

\* ------------------------------------------------------------- dispatcher
\* The fixed guidance generateObject adds to the instructions, trimmed, and
\* the separator it joins them with; each is one symbol.
Guidance == "You must return ONLY valid JSON that conforms to this schema. No prose. If a field is not derivable, return a sensible default or an empty value that fits the schema constraints."
Separator == "\n\n"

\* temperature: 0.2, kept as text, and maxOutputTokens: 512
Temperature == Atom("0.2")
MaxOutputTokens == 512

NoCall == [fn |-> "none"]
NotCalled == [kind |-> "none"]

\* The request generateText(options) sends to the native generateText.
TextRequest(options) ==
  [prompt |-> OptTrim(options.prompt),
   system |-> OptTrim(options.instructions),
   temperature |-> options.temperature,
   maxOutputTokens |-> options.maxOutputTokens,
   sessionId |-> options.sessionId]

\* The system instructions generateObject composes.
ComposeSystem(given) ==
  LET base == IF Truthy(given) THEN OptTrim(given) ELSE Undef IN
  IF Truthy(base) THEN Str(base.s \o <<Separator>> \o <<Guidance>>)
  ELSE Str(<<Guidance>>)

\* The request generateObject(options) sends to the native generateObject.
ObjectRequest(options) ==
  [prompt |-> OptTrim(options.prompt),
   system |-> OrUndefined(ComposeSystem(options.instructions)),
   schema |-> JSONStringify(options.schema),
   sessionId |-> options.sessionId,
   temperature |-> Temperature,
   maxOutputTokens |-> Num(MaxOutputTokens)]

\* The options generateObject calls generateText with on its text path.
FallbackOptions(options) ==
  [prompt |-> OptTrim(options.prompt),
   instructions |-> OrUndefined(ComposeSystem(options.instructions)),
   sessionId |-> options.sessionId,
   temperature |-> Temperature,
   maxOutputTokens |-> Num(MaxOutputTokens)]

\* An Error given a code property after its construction.
CodedError(code, message) == Thrown("Error", code, message, Undef, Undef, Undef)

\* What generateObject does with the text or json it got: parse, validate
\* against the schema, and resolve or throw.  A failed JSON.parse throws a
\* SyntaxError on the guided path and a coded error on the text path.
SyntaxError == NewError(Atom("Unexpected token"))

DecodeFailed(message) == CodedError(ERR_OBJECT_GENERATION_DECODE_FAILED, Atom(message))

Decode(text, sid, schema, onSyntaxError) ==
  LET parsed == JSONParse(text.s) IN
  IF ~parsed.ok THEN Rejected(onSyntaxError)
  ELSE IF ~validateAgainstSchema(parsed.val, schema)
  THEN Rejected(DecodeFailed("Model output does not match schema"))
  ELSE Resolved([object |-> parsed.val, sessionId |-> sid])

\* Mutant: every failure of the guided path goes on to the text path.
FallsBack_Always(error) == TRUE

\* The catch of the guided path: only this code goes on to the text path.
FallsBack(error) ==
  /\ error.cls # "primitive"
  /\ error.code = ERR_TEXT_GENERATION_UNSUPPORTED

\* Mutant: the failure of generateText is thrown on as it came.
WrapTextFailure_Raw(e) == e

\* The catch around generateText on the text path: the failure rewrapped.
WrapTextFailure(e) ==
  CodedError(ERR_OBJECT_GENERATION_RUNTIME,
             IF e.cls # "primitive" /\ IsStr(e.message) THEN e.message
             ELSE Atom("Object generation failed"))

NativeCall(method, request) == [method |-> method, request |-> request]

Settle(result) ==
  /\ pc' = "idle"
  /\ outcome' = result

\* generateText(options), up to its await.
GenerateText(options) ==
  /\ call = NoCall
  /\ call' = [fn |-> "generateText", options |-> options]
  /\ replies' = <<>>
  /\ IF ~Truthy(OptTrim(options.prompt))
     THEN /\ Settle(Rejected(NewError(Atom("Prompt must be a non-empty string."))))
          /\ nativeCalls' = <<>>
     ELSE /\ pc' = "text"
          /\ outcome' = Pending
          /\ nativeCalls' = <<NativeCall("generateText", TextRequest(options))>>
  /\ UNCHANGED nativeSupported
  /\ UNCHANGED <<sessionVars, normVars, platformVars, validVars, storeVars, hookVars>>

\* generateObject(options), up to its first await.
GenerateObject(options) ==
  /\ call = NoCall
  /\ call' = [fn |-> "generateObject", options |-> options]
  /\ replies' = <<>>
  /\ IF ~Truthy(OptTrim(options.prompt))
     THEN /\ Settle(Rejected(NewError(ERR_OBJECT_PROMPT_INVALID)))
          /\ nativeCalls' = <<>>
     ELSE IF ~validateJSONSchema(options.schema)
     THEN /\ Settle(Rejected(NewError(ERR_OBJECT_SCHEMA_INVALID)))
          /\ nativeCalls' = <<>>
     ELSE IF nativeSupported
     THEN /\ pc' = "object"
          /\ outcome' = Pending
          /\ nativeCalls' = <<NativeCall("generateObject", ObjectRequest(options))>>
     ELSE /\ pc' = "fallback"
          /\ outcome' = Pending
          /\ nativeCalls' =
               <<NativeCall("generateText", TextRequest(FallbackOptions(options)))>>
  /\ UNCHANGED nativeSupported
  /\ UNCHANGED <<sessionVars, normVars, platformVars, validVars, storeVars, hookVars>>

\* Mutant: the guided path resolves with what it parsed, not validated.
NativeObjectResolve_Unvalidated(result) ==
  /\ pc = "object"
  /\ replies' = Append(replies, Resolved(result))
  /\ LET parsed == JSONParse(result.json.s) IN
     Settle(IF parsed.ok
            THEN Resolved([object |-> parsed.val, sessionId |-> result.sessionId])
            ELSE Rejected(SyntaxError))
  /\ UNCHANGED <<nativeSupported, call, nativeCalls>>
  /\ UNCHANGED <<sessionVars, normVars, platformVars, validVars, storeVars, hookVars>>

\* Mutant: whatever the try block of the guided path throws goes on to
\* generateText.
NativeObjectResolve_FallbackOnThrow(result) ==
  /\ pc = "object"
  /\ replies' = Append(replies, Resolved(result))
  /\ LET decoded ==
           Decode(result.json, result.sessionId, call.options.schema, SyntaxError)
     IN IF decoded.kind = "rejected"
        THEN /\ pc' = "fallback"
             /\ nativeCalls' =
                  Append(nativeCalls,
                    NativeCall("generateText", TextRequest(FallbackOptions(call.options))))
             /\ UNCHANGED outcome
        ELSE /\ Settle(decoded)
             /\ UNCHANGED nativeCalls
  /\ UNCHANGED <<nativeSupported, call>>
  /\ UNCHANGED <<sessionVars, normVars, platformVars, validVars, storeVars, hookVars>>

\* The native generateObject resolved: the try block of the guided path and
\* its catch, which rethrows what the block throws.
NativeObjectResolve(result) ==
  /\ pc = "object"
  /\ replies' = Append(replies, Resolved(result))
  /\ Settle(Decode(result.json, result.sessionId, call.options.schema, SyntaxError))
  /\ UNCHANGED <<nativeSupported, call, nativeCalls>>
  /\ UNCHANGED <<sessionVars, normVars, platformVars, validVars, storeVars, hookVars>>

\* The native generateObject rejected: the catch of the guided path, which
\* rethrows or goes on to generateText.
NativeObjectReject(error) ==
  /\ pc = "object"
  /\ replies' = Append(replies, Rejected(error))
  /\ IF FallsBack(error)
     THEN /\ pc' = "fallback"
          /\ nativeCalls' =
               Append(nativeCalls,
                 NativeCall("generateText", TextRequest(FallbackOptions(call.options))))
          /\ UNCHANGED outcome
     ELSE /\ Settle(Rejected(error))
          /\ UNCHANGED nativeCalls
  /\ UNCHANGED <<nativeSupported, call>>
  /\ UNCHANGED <<sessionVars, normVars, platformVars, validVars, storeVars, hookVars>>

\* Mutant: the text path resolves with the session id the caller passed.
NativeTextResolve_CallerId(result) ==
  /\ pc \in {"text", "fallback"}
  /\ replies' = Append(replies, Resolved(result))
  /\ IF pc = "text"
     THEN Settle(Resolved(result))
     ELSE Settle(Decode(result.text, call.options.sessionId, call.options.schema,
                        DecodeFailed("Model did not return valid JSON")))
  /\ UNCHANGED <<nativeSupported, call, nativeCalls>>
  /\ UNCHANGED <<sessionVars, normVars, platformVars, validVars, storeVars, hookVars>>

\* The native generateText resolved: generateText returns the result, and on
\* the text path generateObject parses and validates its text.
NativeTextResolve(result) ==
  /\ pc \in {"text", "fallback"}
  /\ replies' = Append(replies, Resolved(result))
  /\ IF pc = "text"
     THEN Settle(Resolved(result))
     ELSE Settle(Decode(result.text, result.sessionId, call.options.schema,
                        DecodeFailed("Model did not return valid JSON")))
  /\ UNCHANGED <<nativeSupported, call, nativeCalls>>
  /\ UNCHANGED <<sessionVars, normVars, platformVars, validVars, storeVars, hookVars>>

\* The native generateText rejected: generateText throws the normalized
\* error, which generateObject on its text path rewraps.
NativeTextReject(error) ==
  /\ pc \in {"text", "fallback"}
  /\ replies' = Append(replies, Rejected(error))
  /\ IF pc = "text"
     THEN Settle(Rejected(toTextGenerationError(error)))
     ELSE Settle(Rejected(WrapTextFailure(toTextGenerationError(error))))
  /\ UNCHANGED <<nativeSupported, call, nativeCalls>>
  /\ UNCHANGED <<sessionVars, normVars, platformVars, validVars, storeVars, hookVars>>

\* ------------------------------------------------------------- normalizer
\* The values toTextGenerationError is given: errors the library made
\* itself, other Errors and plain objects with any mix of fields of the
\* right and the wrong type, and a thrown non-object.
RawCodes ==
  TEXT_GENERATION_ERROR_CODES \cup ModelAvailabilityCodes
    \cup {Undef, ERR_OBJECT_GENERATION_UNSUPPORTED, Num(7)}

RawMessages == {Atom("boom"), Str(<<>>)}

RawValues ==
  { Thrown("primitive", Undef, Undef, Undef, Undef, Undef) }
  \cup { Thrown("TextGenerationError", c, m, cs, nc, nd) :
           c \in TEXT_GENERATION_ERROR_CODES, m \in RawMessages,
           cs \in {Undef, Atom("NSError")}, nc \in {Undef, Num(4)},
           nd \in {Undef, Atom("FoundationModels")} }
  \cup { Thrown("Error", c, m, cs, nc, nd) :
           c \in RawCodes, m \in RawMessages,
           cs \in {Undef, Atom("NSError")}, nc \in {Undef, Num(4), Atom("4")},
           nd \in {Undef, Atom("FoundationModels"), Num(1)} }
  \cup { Thrown("object", c, m, cs, nc, nd) :
           c \in RawCodes, m \in RawMessages \cup {Undef},
           cs \in {Undef, Atom("NSError")}, nc \in {Undef, Num(4), Atom("4")},
           nd \in {Undef, Atom("FoundationModels"), Num(1)} }

\* How many times in a row the normalizer is applied.
MaxPasses == 2
\* How deep the schemas and values given to the validators nest.
MaxDepth == 2
\* How many native sessions the store builds.
MaxBuilt == 2
\* How many times the hook's ask is called, regenerate included.
MaxAsks == 2

\* toTextGenerationError applied to the raw value, then to its own result.
Normalize ==
  /\ Len(normalized) < MaxPasses
  /\ normalized' =
       Append(normalized,
              toTextGenerationError(IF normalized = <<>> THEN raw
                                    ELSE normalized[Len(normalized)]))
  /\ UNCHANGED raw
  /\ UNCHANGED <<sessionVars, genVars, platformVars, validVars, storeVars, hookVars>>

\* ------------------------------------------------------------- inputs
\* Schemas callers pass: well formed, and malformed at the top or nested.
NameSchema ==
  Obj([type |-> Atom("object"),
       required |-> Arr(<<Atom("name")>>),
       properties |-> Obj([name |-> Obj([type |-> Atom("string")])])])

Schemas ==
  { NameSchema,
    Obj([type |-> Atom("array"),
         items |-> Obj([type |-> Atom("number"), minimum |-> Num(1)])]),
    Obj([type |-> Atom("tuple")]),
    Obj([type |-> Atom("object")]),
    Obj([type |-> Atom("array"), items |-> Obj([type |-> Atom("tuple")])]),
    Undef }

\* TextGenerationOptions of callers, who leave temperature and
\* maxOutputTokens out.
TextGenerationOptions ==
  [prompt : OptStrings, instructions : OptStrings,
   sessionId : {Undef, Str(<<"a">>)},
   temperature : {Undef}, maxOutputTokens : {Undef}]

\* ObjectGenerationOptions
ObjectGenerationOptions ==
  [prompt : OptStrings, instructions : OptStrings, schema : Schemas,
   sessionId : {Undef, Str(<<"a">>)}]

\* The texts the model may produce: JSON of an object, an empty object, an
\* array, a string, and prose with a brace.
ModelTexts ==
  { Str(<<Punct("{"), Lit(Atom("name")), Punct(":"), Lit(Str(<<"m", "i", "l", "k">>)), Punct("}")>>),
    Str(<<Punct("{"), Punct("}")>>),
    Str(<<Punct("["), Lit(Num(2)), Punct(","), Lit(Num(0)), Punct("]")>>),
    Str(<<Lit(Str(<<"m", "i", "l", "k">>))>>),
    Str(<<Word("Sure!"), Punct("{"), Word("not"), Word("json")>>) }

\* NativeTextGenerationResult and NativeObjectGenerationResult of the
\* dispatcher's native calls.
NativeGeneratedTexts == [text : ModelTexts, sessionId : NativeIds]
NativeGeneratedObjects == [json : ModelTexts, sessionId : NativeIds]

\* ------------------------------------------------------------- platforms
\* Where the module runs: iOS 26 or later with FoundationModels ("ios"), an
\* older iOS or a build without FoundationModels ("iosLegacy"), Android, web.
Platforms == {"ios", "iosLegacy", "android", "web"}

\* SystemLanguageModel.default.availability: available, or unavailable for
\* one of the three reasons the module names or for another one.
ModelAvailabilities ==
  {"available", "deviceNotEligible", "appleIntelligenceNotEnabled",
   "modelNotReady", "other"}

\* TextModelAvailability
Available == [status |-> "available"]
Unavailable(reasonCode) == [status |-> "unavailable", reasonCode |-> reasonCode]

\* The native isTextModelAvailable: TextAvailability.isSupported() on iOS,
\* false on Android and on the web.
NativeIsTextModelAvailable ==
  platform = "ios" /\ modelAvailability = "available"

\* The native getTextModelAvailability of each platform.
NativeGetTextModelAvailability ==
  IF platform = "ios"
  THEN IF modelAvailability = "available" THEN Available
       ELSE IF modelAvailability \in
                 {"deviceNotEligible", "appleIntelligenceNotEnabled", "modelNotReady"}
       THEN Unavailable(modelAvailability)
       ELSE Unavailable("unknown")
  ELSE Unavailable("unsupported")

\* What the native generateText of each platform throws where text
\* generation is not supported.
NativeUnsupportedError ==
  IF platform = "web"
  THEN NewError(Atom("Text generation is not supported in web environments."))
  ELSE IF platform = "android"
  THEN Thrown("Error", ERR_TEXT_GENERATION_UNSUPPORTED,
              Atom("Text generation is not supported on Android."),
              Undef, Undef, Undef)
  ELSE Thrown("Error", ERR_TEXT_GENERATION_UNSUPPORTED,
              Atom("Text generation requires iOS 26 or later on Apple Intelligence-capable hardware."),
              Undef, Undef, Undef)

\* What the native generateText throws when the model fails on a device
\* that supports it.
NativeFailures ==
  { Thrown("Error", ERR_TEXT_GENERATION_TIMEOUT, Atom("timed out"),
           Atom("NSError"), Num(4), Atom("FoundationModels")),
    Thrown("Error", ERR_TEXT_GENERATION_RUNTIME, Atom("Text generation failed."),
           Undef, Undef, Undef) }

\* Nothing has been called yet: one behaviour follows one activity.
Quiet == ~created /\ call = NoCall /\ availability.pc = "idle"

AvailabilityCall(at, fellBack, result) ==
  [pc |-> at, fellBack |-> fellBack, result |-> result]

\* Mutant: the boolean fallback reports an unknown reason.
BooleanAvailability_Unknown(ok) ==
  IF ok THEN Available ELSE Unavailable("unknown")

\* The result getTextModelAvailability builds from isTextModelAvailable().
BooleanAvailability(ok) ==
  IF ok THEN Available ELSE Unavailable("unsupported")

\* getTextModelAvailability(), up to its first await.
GetTextModelAvailability ==
  /\ Quiet
  /\ availability' =
       AvailabilityCall(IF hasAvailabilityMethod THEN "native" ELSE "boolean",
                        ~hasAvailabilityMethod, Pending)
  /\ UNCHANGED <<platform, modelAvailability, hasAvailabilityMethod>>
  /\ UNCHANGED <<sessionVars, genVars, normVars, validVars, storeVars, hookVars>>

\* The native getTextModelAvailability resolved: its result is returned.
NativeAvailabilityResolve ==
  /\ availability.pc = "native"
  /\ availability' =
       AvailabilityCall("done", FALSE, Resolved(NativeGetTextModelAvailability))
  /\ UNCHANGED <<platform, modelAvailability, hasAvailabilityMethod>>
  /\ UNCHANGED <<sessionVars, genVars, normVars, validVars, storeVars, hookVars>>

\* The native getTextModelAvailability rejected: the empty catch, then the
\* call of isTextModelAvailable().
NativeAvailabilityReject ==
  /\ availability.pc = "native"
  /\ availability' = AvailabilityCall("boolean", TRUE, Pending)
  /\ UNCHANGED <<platform, modelAvailability, hasAvailabilityMethod>>
  /\ UNCHANGED <<sessionVars, genVars, normVars, validVars, storeVars, hookVars>>

\* isTextModelAvailable() resolved.
IsTextModelAvailableResolve ==
  /\ availability.pc = "boolean"
  /\ availability' =
       AvailabilityCall("done", TRUE,
                        Resolved(BooleanAvailability(NativeIsTextModelAvailable)))
  /\ UNCHANGED <<platform, modelAvailability, hasAvailabilityMethod>>
  /\ UNCHANGED <<sessionVars, genVars, normVars, validVars, storeVars, hookVars>>

\* generateText(options) as the first thing called.
PlatformGenerateText(options) == Quiet /\ GenerateText(options)

\* LLMSession.create() as the first thing called.
PlatformCreate ==
  Quiet /\ Create([instructions |-> Undef, sessionId |-> Undef])

\* The native generateText of the platform replies to generateText.
UnsupportedTextReject ==
  ~NativeIsTextModelAvailable /\ NativeTextReject(NativeUnsupportedError)

SupportedTextResolve(result) ==
  NativeIsTextModelAvailable /\ NativeTextResolve(result)

SupportedTextReject(error) ==
  NativeIsTextModelAvailable /\ NativeTextReject(error)

\* The native generateText of the platform replies to an ask.
UnsupportedAskReject(i) ==
  ~NativeIsTextModelAvailable /\ AskReject(i, NativeUnsupportedError)

SupportedAskResolve(i, result) ==
  NativeIsTextModelAvailable /\ AskResolve(i, result)

SupportedAskReject(i, error) ==
  NativeIsTextModelAvailable /\ AskReject(i, error)

\* ------------------------------------------------------------- TextSessionStore
\* UUID().uuidString: an id no caller has, a new one for each session built.
UUID(n) == Str([i \in 1..n |-> "u"])

\* Entry: a native session, named by the order it was built in, and the
\* instructions it was built with.
Entry(session, given) == [session |-> session, instructions |-> given]

Put(f, k, v) == [x \in DOMAIN f \cup {k} |-> IF x = k THEN v ELSE f[x]]

\* What session(for:) hands back, with the store as it leaves it.
Handle(id, session, stored, count) ==
  [id |-> id, session |-> session, entries |-> stored, built |-> count]

\* Mutant: a stored session is handed back whatever its instructions.
SessionFor_Reuse(options) ==
  LET normalizedInstructions == OptTrim(options.system)
      requestedId == options.sessionId
  IN IF requestedId # Undef /\ requestedId \in DOMAIN entries
     THEN Handle(requestedId, entries[requestedId].session, entries, built)
     ELSE LET id == IF requestedId # Undef THEN requestedId ELSE UUID(built + 1)
          IN Handle(id, built + 1,
                    Put(entries, id, Entry(built + 1, normalizedInstructions)),
                    built + 1)

\* Mutant: a session id the store does not know is replaced by a new one.
SessionFor_Mint(options) ==
  LET normalizedInstructions == OptTrim(options.system)
      requestedId == options.sessionId
  IN IF requestedId # Undef /\ requestedId \in DOMAIN entries
     THEN IF entries[requestedId].instructions = normalizedInstructions
          THEN Handle(requestedId, entries[requestedId].session, entries, built)
          ELSE Handle(requestedId, built + 1,
                      Put(entries, requestedId, Entry(built + 1, normalizedInstructions)),
                      built + 1)
     ELSE Handle(UUID(built + 1), built + 1,
                 Put(entries, UUID(built + 1), Entry(built + 1, normalizedInstructions)),
                 built + 1)

\* TextSessionStore.session(for: options)
SessionFor(options) ==
  LET normalizedInstructions == OptTrim(options.system)
      requestedId == options.sessionId
  IN IF requestedId # Undef /\ requestedId \in DOMAIN entries
     THEN IF entries[requestedId].instructions = normalizedInstructions
          THEN Handle(requestedId, entries[requestedId].session, entries, built)
          ELSE Handle(requestedId, built + 1,
                      Put(entries, requestedId, Entry(built + 1, normalizedInstructions)),
                      built + 1)
     ELSE LET id == IF requestedId # Undef THEN requestedId ELSE UUID(built + 1)
          IN Handle(id, built + 1,
                    Put(entries, id, Entry(built + 1, normalizedInstructions)),
                    built + 1)

\* What the store was asked and what it handed back: the method that asked,
\* the request's session id and system, the entry the id had (none when the
\* id was not stored), and the handle.
StoreCall(method, options, handle) ==
  [op |-> "session", method |-> method,
   sent |-> options.sessionId, system |-> options.system,
   known |-> (options.sessionId # Undef /\ options.sessionId \in DOMAIN entries),
   before |-> IF options.sessionId # Undef /\ options.sessionId \in DOMAIN entries
              THEN entries[options.sessionId] ELSE Entry(0, Undef),
   builtBefore |-> built,
   id |-> handle.id, session |-> handle.session,
   overlapped |-> storeLast.op # "none" /\ storeLast.overlapped]

\* The native generateText takes up the next request of the Session and gets
\* its handle from the store.
StoreSessionForAsk ==
  /\ Len(handles) < Len(inflight)
  /\ LET options == inflight[Len(handles) + 1]
         handle == SessionFor(options)
     IN /\ handle.built <= MaxBuilt
        /\ entries' = handle.entries
        /\ built' = handle.built
        /\ handles' = Append(handles, [id |-> handle.id, session |-> handle.session])
        /\ storeLast' = StoreCall("generateText", options, handle)
  /\ UNCHANGED <<sessionVars, genVars, normVars, platformVars, validVars, hookVars>>

\* The native generateText returns the model's response with the id of its
\* handle, and ask() goes on after its await.
StoreRespond(i, text) ==
  /\ i \in 1..Len(handles)
  /\ LET result == [text |-> text, sessionId |-> handles[i].id] IN
     /\ sessionId' = result.sessionId
     /\ last' = Event("resolve",
                      [result |-> result, sent |-> inflight[i].sessionId,
                       held |-> sessionId, of |-> Len(inflight),
                       overtaken |-> (last.op = "resolve" /\ i < last.arg.index),
                       index |-> i],
                      NoRequest, Resolved(result.text))
  /\ inflight' = RemoveAt(inflight, i)
  /\ handles' = RemoveAt(handles, i)
  /\ everSucceeded' = TRUE
  /\ storeLast' =
       [storeLast EXCEPT !.overlapped = storeLast.overlapped \/ Len(inflight) > 1]
  /\ UNCHANGED <<created, instructions, lastSet, destroyed, seeded, entries, built>>
  /\ UNCHANGED <<genVars, normVars, platformVars, validVars, hookVars>>

\* The system the native generateObject asks the store with: the request's
\* trimmed system and its own guidance, which ends with the schema.
NativeGuidance == "You must return ONLY valid JSON that conforms to this schema. No prose, no code fences, no explanations. Respond with a single JSON value. Schema: "

CombinedSystem(options) ==
  LET base == OptTrim(options.system) IN
  IF IsStr(base) /\ base.s # <<>>
  THEN Str(base.s \o <<Separator, NativeGuidance>> \o options.schema.s)
  ELSE Str(<<NativeGuidance>> \o options.schema.s)

\* The requests other callers of the native module send while the Session
\* is at work.
StoreRequests ==
  [prompt : {Atom("a")}, system : {Undef, Str(<<" ", "a">>)},
   schema : {Atom("{}")}, sessionId : {Undef, Atom("a")}]

\* A native generateText or generateObject call of another caller, from its
\* request to its successful return.
StoreGenerate(method, options) ==
  /\ method \in {"generateText", "generateObject"}
  /\ LET storeOptions == IF method = "generateObject"
                         THEN [options EXCEPT !.system = CombinedSystem(options)]
                         ELSE options
         handle == SessionFor(storeOptions)
     IN /\ handle.built <= MaxBuilt
        /\ entries' = handle.entries
        /\ built' = handle.built
        /\ storeLast' = StoreCall(method, storeOptions, handle)
  /\ UNCHANGED handles
  /\ UNCHANGED <<sessionVars, genVars, normVars, platformVars, validVars, hookVars>>

\* ------------------------------------------------------------- useLLMSession
\* UseLLMSessionParams
UseLLMSessionParams ==
  [instructions : {Undef, Atom("a")}, initialId : {Undef, Atom("a")},
   autoCreate : BOOLEAN]

\* The prompts the hook's ask is given, the instructions setInstructions and
\* reset are given.
HookPrompts == {Atom("a"), Str(<<" ">>)}

HookInstructions == {Undef, Str(<<" ", "b">>)}

\* One entry of history.
HookEntry(role, content) == [role |-> role, content |-> content]

\* The text the model answers a prompt with.
Answer(prompt) == Str(<<"re">> \o prompt.s)

\* The session id the native generateText returns: the request's, or a new
\* one when the request has none.
ReturnedId(request) ==
  IF request.sessionId # Undef THEN request.sessionId ELSE Str(<<"n">>)

\* What the native generateText may reject with: a failure of the model
\* where the platform has it, the platform's unsupported error where not.
HookModelFailure ==
  Thrown("Error", ERR_TEXT_GENERATION_TIMEOUT, Atom("timed out"),
         Atom("NSError"), Num(4), Atom("FoundationModels"))

HookAndroidUnsupported ==
  Thrown("Error", ERR_TEXT_GENERATION_UNSUPPORTED,
         Atom("Text generation is not supported on Android."),
         Undef, Undef, Undef)

HookNativeErrors == {HookModelFailure, HookAndroidUnsupported}

\* LLMSession.create({instructions, sessionId: effectiveInitialId}): the
\* object, with who created it.
HookCreate(by) ==
  [sessionId |-> NormalizeSessionId(hookParams.initialId),
   instructions |-> NormalizeInstructions(hookParams.instructions),
   by |-> by]

\* The error ask throws when the hook holds the model unavailable.
HookUnsupported ==
  toTextGenerationError(
    Thrown("object", ERR_TEXT_GENERATION_UNSUPPORTED,
           Atom("Text generation is not supported."), Undef, Undef, Undef))

\* The error regenerate throws when there is no last prompt.
HookNothingToRegenerate ==
  toTextGenerationError(
    Thrown("object", ERR_TEXT_PROMPT_INVALID,
           Atom("No previous prompt to regenerate."), Undef, Undef, Undef))

\* The mount effect after isTextModelAvailable() resolved, up to its next
\* await.
MountCheckResolve ==
  /\ mountPc = "checking"
  /\ isAvailable' = NativeIsTextModelAvailable
  /\ IF ~NativeIsTextModelAvailable
     THEN /\ hookStatus' = "unsupported"
          /\ mountPc' = "done"
          /\ UNCHANGED hookSessions
     ELSE IF hookParams.autoCreate /\ sessionRef = 0
     THEN /\ hookSessions' = Append(hookSessions, HookCreate("mount"))
          /\ mountPc' = "creating"
          /\ UNCHANGED hookStatus
     ELSE /\ mountPc' = "done"
          /\ UNCHANGED <<hookStatus, hookSessions>>
  /\ hookLast' = [op |-> "none"]
  /\ UNCHANGED <<hookParams, hookError, history, sessionRef, lastPromptRef,
                 hookAsks, asked, promised, destroyedHeld>>
  /\ UNCHANGED <<sessionVars, genVars, normVars, platformVars, validVars, storeVars>>

\* The mount effect after LLMSession.create resolved: the assignment.
MountCreated ==
  /\ mountPc = "creating"
  /\ mountPc' = "done"
  /\ sessionRef' = CHOOSE i \in 1..Len(hookSessions) : hookSessions[i].by = "mount"
  /\ hookLast' = [op |-> "none"]
  /\ UNCHANGED <<hookParams, isAvailable, hookStatus, hookError, history,
                 hookSessions, lastPromptRef, hookAsks, asked, promised,
                 destroyedHeld>>
  /\ UNCHANGED <<sessionVars, genVars, normVars, platformVars, validVars, storeVars>>

\* ask(prompt) up to its first await: the availability check and
\* ensureSession up to its await.  The ask keeps, for the properties,
\* whether it comes after a setInstructions and whether it is the first
\* after a destroy.
HookAskCall(prompt, via) ==
  /\ asked < MaxAsks
  /\ asked' = asked + 1
  /\ IF ~isAvailable
     THEN /\ hookLast' = [op |-> "ask", result |-> Rejected(HookUnsupported)]
          /\ UNCHANGED <<hookSessions, hookAsks, destroyedHeld>>
     ELSE /\ hookSessions' =
               IF sessionRef = 0 THEN Append(hookSessions, HookCreate("ask"))
               ELSE hookSessions
          /\ hookAsks' =
               Append(hookAsks,
                 [prompt |-> prompt,
                  session |-> IF sessionRef = 0 THEN Len(hookSessions) + 1 ELSE sessionRef,
                  assign |-> sessionRef = 0,
                  stage |-> "ensure", request |-> NoRequest, threw |-> Undef,
                  afterSet |-> promised.set, afterDestroy |-> destroyedHeld.is])
          /\ destroyedHeld' = [destroyedHeld EXCEPT !.is = FALSE]
          /\ hookLast' = [op |-> "none"]
  /\ UNCHANGED <<hookParams, mountPc, isAvailable, hookStatus, hookError,
                 history, sessionRef, lastPromptRef, promised>>
  /\ UNCHANGED <<sessionVars, genVars, normVars, platformVars, validVars, storeVars>>

\* ask(prompt)
HookAsk(prompt) ==
  /\ mountPc # "unmounted"
  /\ HookAskCall(prompt, "ask")

\* regenerate()
HookRegenerate ==
  /\ mountPc # "unmounted"
  /\ IF ~Truthy(OptTrim(lastPromptRef))
     THEN /\ hookLast' = [op |-> "regenerate",
                          result |-> Rejected(HookNothingToRegenerate)]
          /\ UNCHANGED <<hookParams, mountPc, isAvailable, hookStatus, hookError,
                         history, sessionRef, hookSessions, lastPromptRef,
                         hookAsks, asked, promised, destroyedHeld>>
          /\ UNCHANGED <<sessionVars, genVars, normVars, platformVars, validVars,
                         storeVars>>
     ELSE HookAskCall(OptTrim(lastPromptRef), "regenerate")

\* ask(prompt) after ensureSession: the assignment of ensureSession, the
\* state updates, and session.ask up to its await or its throw.
HookAskProceed(i) ==
  /\ i \in 1..Len(hookAsks)
  /\ hookAsks[i].stage = "ensure"
  /\ LET op == hookAsks[i]
         session == hookSessions[op.session]
         trimmed == OptTrim(op.prompt)
         request ==
           NativeTextGenerationOptions(trimmed, session.instructions, session.sessionId)
     IN /\ sessionRef' = IF op.assign THEN op.session ELSE sessionRef
        /\ hookStatus' = "running"
        /\ hookError' = Undef
        /\ lastPromptRef' = op.prompt
        /\ history' = Append(history, HookEntry("user", op.prompt))
        /\ IF ~Truthy(trimmed)
           THEN /\ hookAsks' =
                     [hookAsks EXCEPT
                        ![i].stage = "threw",
                        ![i].threw =
                          toTextGenerationError(
                            Thrown("object", ERR_TEXT_PROMPT_INVALID,
                                   Atom("Prompt must be a non-empty string."),
                                   Undef, Undef, Undef))]
                /\ hookLast' = [op |-> "none"]
           ELSE /\ hookAsks' =
                     [hookAsks EXCEPT ![i].stage = "native", ![i].request = request]
                /\ hookLast' = [op |-> "none"]
  /\ UNCHANGED <<hookParams, mountPc, isAvailable, hookSessions, asked, promised,
                 destroyedHeld>>
  /\ UNCHANGED <<sessionVars, genVars, normVars, platformVars, validVars, storeVars>>

\* ask(prompt) after session.ask resolved: session.ask stores the session
\* id, the hook appends the response.
HookNativeResolve(i) ==
  /\ i \in 1..Len(hookAsks)
  /\ hookAsks[i].stage = "native"
  /\ NativeIsTextModelAvailable
  /\ LET op == hookAsks[i]
         text == Answer(op.request.prompt)
     IN /\ hookSessions' =
             [hookSessions EXCEPT ![op.session].sessionId = ReturnedId(op.request)]
        /\ history' = Append(history, HookEntry("assistant", text))
        /\ hookLast' = [op |-> "resolved", prompt |-> op.prompt,
                        result |-> Resolved(text)]
  /\ hookStatus' = "idle"
  /\ hookAsks' = RemoveAt(hookAsks, i)
  /\ UNCHANGED <<hookParams, mountPc, isAvailable, hookError, sessionRef,
                 lastPromptRef, asked, promised, destroyedHeld>>
  /\ UNCHANGED <<sessionVars, genVars, normVars, platformVars, validVars, storeVars>>

\* The catch of ask: the error normalized, stored and rethrown.
HookCatch(i, e, native) ==
  LET err == toTextGenerationError(e) IN
  /\ hookError' = [code |-> err.code, message |-> err.message]
  /\ hookStatus' = "error"
  /\ hookAsks' = RemoveAt(hookAsks, i)
  /\ hookLast' = [op |-> "rejected", native |-> native, result |-> Rejected(err)]
  /\ UNCHANGED <<hookParams, mountPc, isAvailable, history, sessionRef,
                 hookSessions, lastPromptRef, asked, promised, destroyedHeld>>
  /\ UNCHANGED <<sessionVars, genVars, normVars, platformVars, validVars, storeVars>>

\* ask(prompt) after session.ask rejected: session.ask normalizes the native
\* error, then the catch of ask.
HookNativeReject(i, error) ==
  /\ i \in 1..Len(hookAsks)
  /\ hookAsks[i].stage = "native"
  /\ error = (IF NativeIsTextModelAvailable THEN HookModelFailure
              ELSE NativeUnsupportedError)
  /\ HookCatch(i, toTextGenerationError(error), TRUE)

\* ask(prompt) after session.ask threw for an empty prompt.
HookPromptReject(i) ==
  /\ i \in 1..Len(hookAsks)
  /\ hookAsks[i].stage = "threw"
  /\ HookCatch(i, hookAsks[i].threw, FALSE)

\* setInstructions(value)
HookSetInstructions(value) ==
  /\ mountPc # "unmounted"
  /\ promised' = [set |-> TRUE, value |-> value]
  /\ hookSessions' =
       IF sessionRef = 0 THEN hookSessions
       ELSE [hookSessions EXCEPT ![sessionRef].instructions = NormalizeInstructions(value)]
  /\ hookAsks' = [i \in DOMAIN hookAsks |-> [hookAsks[i] EXCEPT !.afterSet = FALSE]]
  /\ hookLast' = [op |-> "none"]
  /\ UNCHANGED <<hookParams, mountPc, isAvailable, hookStatus, hookError, history,
                 sessionRef, lastPromptRef, asked, destroyedHeld>>
  /\ UNCHANGED <<sessionVars, genVars, normVars, platformVars, validVars, storeVars>>

\* reset({instructions: value})
HookReset(value) ==
  /\ mountPc # "unmounted"
  /\ promised' = [set |-> FALSE, value |-> Undef]
  /\ IF sessionRef = 0
     THEN UNCHANGED <<hookSessions, history>>
     ELSE /\ hookSessions' =
               [hookSessions EXCEPT
                  ![sessionRef].instructions = NormalizeInstructions(value)]
          /\ history' = <<>>
  /\ hookAsks' = [i \in DOMAIN hookAsks |-> [hookAsks[i] EXCEPT !.afterSet = FALSE]]
  /\ hookLast' = [op |-> "none"]
  /\ UNCHANGED <<hookParams, mountPc, isAvailable, hookStatus, hookError,
                 sessionRef, lastPromptRef, asked, destroyedHeld>>
  /\ UNCHANGED <<sessionVars, genVars, normVars, platformVars, validVars, storeVars>>

\* destroy()
HookDestroy ==
  /\ mountPc # "unmounted"
  /\ IF sessionRef = 0
     THEN /\ UNCHANGED <<hookSessions, sessionRef, history, destroyedHeld, hookAsks>>
          /\ hookLast' = [op |-> "none"]
     ELSE /\ destroyedHeld' = [is |-> TRUE, id |-> hookSessions[sessionRef].sessionId]
          /\ hookSessions' =
               [hookSessions EXCEPT
                  ![sessionRef].sessionId = Undef, ![sessionRef].instructions = Undef]
          /\ sessionRef' = 0
          /\ history' = <<>>
          /\ hookAsks' =
               [i \in DOMAIN hookAsks |-> [hookAsks[i] EXCEPT !.afterDestroy = FALSE]]
          /\ hookLast' = [op |-> "none"]
  /\ UNCHANGED <<hookParams, mountPc, isAvailable, hookStatus, hookError,
                 lastPromptRef, asked, promised>>
  /\ UNCHANGED <<sessionVars, genVars, normVars, platformVars, validVars, storeVars>>

\* ------------------------------------------------------------- validator inputs
\* The schemas the validators are given: of each of the five kinds with the
\* constraints the JSONSchema type declares, with an unknown type, with no
\* type, an array without items and an object without properties, nested
\* up to a depth.
LeafSchemas ==
  { Obj([type |-> Atom("string"), minLength |-> Num(2)]),
    Obj([type |-> Atom("string"), maxLength |-> Num(1)]),
    Obj([type |-> Atom("string"), enum |-> Arr(<<Atom("a")>>)]),
    Obj([type |-> Atom("number"), minimum |-> Num(1)]),
    Obj([type |-> Atom("number"), maximum |-> Num(1)]),
    Obj([type |-> Atom("boolean")]),
    Obj([type |-> Atom("tuple")]),
    Obj(NoProps) }

ArraySchemas(inner) ==
  { Obj([type |-> Atom("array")]),
    Obj([type |-> Atom("array"), minItems |-> Num(2)]),
    Obj([type |-> Atom("array"), maxItems |-> Num(1)]) }
  \cup { Obj([type |-> Atom("array"), items |-> i]) : i \in inner }
  \cup { Obj([type |-> Atom("array"), items |-> i, minItems |-> Num(2)]) : i \in inner }
  \cup { Obj([type |-> Atom("array"), items |-> i, maxItems |-> Num(1)]) : i \in inner }

ObjectSchemas(inner) ==
  { Obj([type |-> Atom("object")]) }
  \cup { Obj([type |-> Atom("object"), properties |-> Obj([a |-> i])]) : i \in inner }
  \cup { Obj([type |-> Atom("object"), properties |-> Obj([a |-> i]),
              required |-> Arr(<<Atom("a")>>)]) : i \in inner }

RECURSIVE SchemasOfDepth(_)
SchemasOfDepth(d) ==
  IF d = 0 THEN LeafSchemas
  ELSE LET inner == SchemasOfDepth(d - 1)
       IN LeafSchemas \cup ArraySchemas(inner) \cup ObjectSchemas(inner)

SchemaInputs == SchemasOfDepth(MaxDepth)

\* The decoded values validateAgainstSchema is given.
LeafValues ==
  { Atom("a"), Str(<<"a", "b">>), Num(0), Num(2), Bool(TRUE) }

RECURSIVE ValuesOfDepth(_)
ValuesOfDepth(d) ==
  IF d = 0 THEN LeafValues
  ELSE LET inner == ValuesOfDepth(d - 1)
       IN LeafValues
            \cup { Arr(<<>>), Obj(NoProps) }
            \cup { Arr(<<v>>) : v \in inner }
            \cup { Arr(<<v, v>>) : v \in inner }
            \cup { Obj([a |-> v]) : v \in inner }

ValueInputs == ValuesOfDepth(MaxDepth)

\* validateJSONSchema(givenSchema) is called.
ValidateShape ==
  /\ shapeVerdict = "none"
  /\ shapeVerdict' = IF validateJSONSchema(givenSchema) THEN "returned" ELSE "threw"
  /\ UNCHANGED <<givenSchema, givenValue, valueVerdict>>
  /\ UNCHANGED <<sessionVars, genVars, normVars, platformVars, storeVars, hookVars>>

\* validateAgainstSchema(value, givenSchema) is called, as generateObject
\* calls it: with a schema validateJSONSchema has accepted.
ValidateValue(value) ==
  /\ shapeVerdict = "returned"
  /\ valueVerdict = "none"
  /\ givenValue' = value
  /\ valueVerdict' = IF validateAgainstSchema(value, givenSchema) THEN "true" ELSE "false"
  /\ UNCHANGED <<givenSchema, shapeVerdict>>
  /\ UNCHANGED <<sessionVars, genVars, normVars, platformVars, storeVars, hookVars>>

\* ------------------------------------------------------------- specifications
SessionInit ==
  /\ created = FALSE
  /\ sessionId = Undef
  /\ instructions = Undef
  /\ inflight = <<>>
  /\ last = [op |-> "none", arg |-> Undef, request |-> NoRequest,
             result |-> Undef, afterReset |-> FALSE]
  /\ lastSet = Undef
  /\ destroyed = FALSE
  /\ seeded = FALSE
  /\ everSucceeded = FALSE

GenInit ==
  /\ call = NoCall
  /\ pc = "idle"
  /\ nativeCalls = <<>>
  /\ replies = <<>>
  /\ outcome = NotCalled

ValidInit ==
  /\ givenSchema = Undef
  /\ givenValue = Undef
  /\ shapeVerdict = "none"
  /\ valueVerdict = "none"

StoreInit ==
  /\ entries = <<>>
  /\ built = 0
  /\ handles = <<>>
  /\ storeLast = [op |-> "none"]

\* No hook is mounted.
HookInit ==
  /\ hookParams = [instructions |-> Undef, initialId |-> Undef, autoCreate |-> TRUE]
  /\ mountPc = "unmounted"
  /\ isAvailable = TRUE
  /\ hookStatus = "idle"
  /\ hookError = Undef
  /\ history = <<>>
  /\ sessionRef = 0
  /\ hookSessions = <<>>
  /\ lastPromptRef = Undef
  /\ hookAsks = <<>>
  /\ asked = 0
  /\ hookLast = [op |-> "none"]
  /\ promised = [set |-> FALSE, value |-> Undef]
  /\ destroyedHeld = [is |-> FALSE, id |-> Undef]

NormInit ==
  /\ raw = Thrown("primitive", Undef, Undef, Undef, Undef, Undef)
  /\ normalized = <<>>

\* An iOS device whose model is available, no availability call made.
PlatformInit ==
  /\ platform = "ios"
  /\ modelAvailability = "available"
  /\ hasAvailabilityMethod = TRUE
  /\ availability = AvailabilityCall("idle", FALSE, NotCalled)

\* One LLMSession, from before its creation.
Init ==
  /\ SessionInit
  /\ GenInit
  /\ ValidInit
  /\ StoreInit
  /\ HookInit
  /\ NormInit
  /\ PlatformInit
  /\ nativeSupported = TRUE

Next ==
  \/ \E options \in CreateLLMSessionOptions : Create(options)
  \/ \E value \in OptStrings : Reset(value)
  \/ Destroy
  \/ \E prompt \in OptStrings : Ask(prompt)
  \/ \E i \in 1..MaxInflight, result \in NativeTextResults : AskResolve(i, result)
  \/ \E i \in 1..MaxInflight, error \in NativeErrors : AskReject(i, error)

Spec == Init /\ [][Next]_vars

\* One call of generateText or generateObject, which keep no state between
\* calls, on a platform whose native module has or lacks generateObject.
InitGen ==
  /\ SessionInit
  /\ GenInit
  /\ ValidInit
  /\ StoreInit
  /\ HookInit
  /\ NormInit
  /\ PlatformInit
  /\ nativeSupported \in BOOLEAN

NextGen ==
  \/ \E options \in TextGenerationOptions : GenerateText(options)
  \/ \E options \in ObjectGenerationOptions : GenerateObject(options)
  \/ \E result \in NativeGeneratedObjects : NativeObjectResolve(result)
  \/ \E error \in NativeErrors : NativeObjectReject(error)
  \/ \E result \in NativeGeneratedTexts : NativeTextResolve(result)
  \/ \E error \in NativeErrors : NativeTextReject(error)

SpecGen == InitGen /\ [][NextGen]_vars

\* toTextGenerationError, applied to one raw value MaxPasses times over.
InitNorm ==
  /\ SessionInit
  /\ GenInit
  /\ ValidInit
  /\ StoreInit
  /\ HookInit
  /\ PlatformInit
  /\ nativeSupported = TRUE
  /\ raw \in RawValues
  /\ normalized = <<>>

NextNorm == Normalize

SpecNorm == InitNorm /\ [][NextNorm]_vars

\* One activity (a generateText call, a session's asks, or a call of
\* getTextModelAvailability) on each platform, whose native module answers
\* as that platform's does.
InitPlatform ==
  /\ SessionInit
  /\ GenInit
  /\ ValidInit
  /\ StoreInit
  /\ HookInit
  /\ NormInit
  /\ nativeSupported = TRUE
  /\ platform \in Platforms
  /\ modelAvailability \in
       (IF platform = "ios" THEN ModelAvailabilities ELSE {"none"})
  /\ hasAvailabilityMethod \in BOOLEAN
  /\ availability = AvailabilityCall("idle", FALSE, NotCalled)

NextPlatform ==
  \/ \E options \in TextGenerationOptions : PlatformGenerateText(options)
  \/ UnsupportedTextReject
  \/ \E result \in NativeGeneratedTexts : SupportedTextResolve(result)
  \/ \E error \in NativeFailures : SupportedTextReject(error)
  \/ PlatformCreate
  \/ \E prompt \in OptStrings : Ask(prompt)
  \/ \E i \in 1..MaxInflight : UnsupportedAskReject(i)
  \/ \E i \in 1..MaxInflight, result \in NativeTextResults : SupportedAskResolve(i, result)
  \/ \E i \in 1..MaxInflight, error \in NativeFailures : SupportedAskReject(i, error)
  \/ GetTextModelAvailability
  \/ NativeAvailabilityResolve
  \/ NativeAvailabilityReject
  \/ IsTextModelAvailableResolve

SpecPlatform == InitPlatform /\ [][NextPlatform]_vars

\* The validators of generateObject, applied to a schema and then a value.
InitSchema ==
  /\ SessionInit
  /\ GenInit
  /\ NormInit
  /\ PlatformInit
  /\ StoreInit
  /\ HookInit
  /\ nativeSupported = TRUE
  /\ givenSchema \in SchemaInputs
  /\ givenValue = Undef
  /\ shapeVerdict = "none"
  /\ valueVerdict = "none"

NextSchema ==
  \/ ValidateShape
  \/ \E value \in ValueInputs : ValidateValue(value)

SpecSchema == InitSchema /\ [][NextSchema]_vars

\* The options the Session is created with: with and without instructions
\* and a seed id.
StoreSessionOptions ==
  [instructions : {Undef, Atom("a")}, sessionId : {Undef, Atom("a")}]

\* One Session and other callers against the native session store; every
\* native call succeeds.
InitStore ==
  /\ SessionInit
  /\ GenInit
  /\ ValidInit
  /\ StoreInit
  /\ HookInit
  /\ NormInit
  /\ PlatformInit
  /\ nativeSupported = TRUE

NextStore ==
  \/ \E options \in StoreSessionOptions : Create(options)
  \/ \E value \in {Undef, Atom("a")} : Reset(value)
  \/ Ask(Atom("a"))
  \/ StoreSessionForAsk
  \/ \E i \in 1..MaxInflight, text \in NativeTexts : StoreRespond(i, text)
  \/ \E method \in {"generateText", "generateObject"}, options \in StoreRequests :
       StoreGenerate(method, options)

SpecStore == InitStore /\ [][NextStore]_vars

\* The hook, mounted on a platform that has the text model or has not,
\* while its availability check is under way.
InitHook ==
  /\ SessionInit
  /\ GenInit
  /\ ValidInit
  /\ StoreInit
  /\ NormInit
  /\ nativeSupported = TRUE
  /\ platform \in {"ios", "android"}
  /\ modelAvailability = (IF platform = "ios" THEN "available" ELSE "none")
  /\ hasAvailabilityMethod = TRUE
  /\ availability = AvailabilityCall("idle", FALSE, NotCalled)
  /\ hookParams \in UseLLMSessionParams
  /\ mountPc = "checking"
  /\ isAvailable = TRUE
  /\ hookStatus = "idle"
  /\ hookError = Undef
  /\ history = <<>>
  /\ sessionRef = 0
  /\ hookSessions = <<>>
  /\ lastPromptRef = Undef
  /\ hookAsks = <<>>
  /\ asked = 0
  /\ hookLast = [op |-> "none"]
  /\ promised = [set |-> FALSE, value |-> Undef]
  /\ destroyedHeld = [is |-> FALSE, id |-> Undef]

NextHook ==
  \/ MountCheckResolve
  \/ MountCreated
  \/ \E prompt \in HookPrompts : HookAsk(prompt)
  \/ HookRegenerate
  \/ \E i \in 1..MaxAsks : HookAskProceed(i)
  \/ \E i \in 1..MaxAsks : HookNativeResolve(i)
  \/ \E i \in 1..MaxAsks, error \in HookNativeErrors : HookNativeReject(i, error)
  \/ \E i \in 1..MaxAsks : HookPromptReject(i)
  \/ \E value \in HookInstructions : HookSetInstructions(value)
  \/ \E value \in HookInstructions : HookReset(value)
  \/ HookDestroy

SpecHook == InitHook /\ [][NextHook]_vars

\* ------------------------------------------------------------- properties
\* The vocabulary of the properties, stated without the model's own Trim.

\* An optional string that is absent or holds nothing but whitespace.
Blank(v) == ~IsStr(v) \/ \A i \in 1..Len(v.s) : IsSpace(v.s[i])

\* The string between the first and the last non-whitespace character of v,
\* absent when there is none.
Stripped(v) ==
  IF Blank(v) THEN Undef
  ELSE LET solid == {i \in 1..Len(v.s) : ~IsSpace(v.s[i])}
           lo == CHOOSE i \in solid : \A j \in solid : i <= j
           hi == CHOOSE i \in solid : \A j \in solid : j <= i
       IN Str(SubSeq(v.s, lo, hi))

\* The step is a call of ask that dispatched a native request.
Dispatched == last'.op = "ask" /\ last'.request # NoRequest

\* The error a rejected call surfaced carries this code as its code field.
Coded(result, codes) ==
  /\ result.kind = "rejected"
  /\ result.error.cls # "primitive"
  /\ result.error.code \in codes

\* The native generateObject was called first and rejected with this code.
ObjectRejectedWith(code) ==
  /\ call.fn = "generateObject"
  /\ Len(replies) >= 1
  /\ nativeCalls[1].method = "generateObject"
  /\ replies[1].kind = "rejected"
  /\ replies[1].error.cls # "primitive"
  /\ replies[1].error.code = code

\* C1: when the native generateObject exists and fails with
\* ERR_OBJECT_GENERATION_UNSUPPORTED, generateObject does not surface the
\* failure but calls the native generateText with the same prompt, and
\* rejects with ERR_OBJECT_GENERATION_DECODE_FAILED when the text it gets is
\* not valid JSON.
C1_FallbackOnObjectUnsupported ==
  ObjectRejectedWith(ERR_OBJECT_GENERATION_UNSUPPORTED) =>
    /\ Len(nativeCalls) = 2
    /\ nativeCalls[2].method = "generateText"
    /\ nativeCalls[2].request.prompt = nativeCalls[1].request.prompt
    /\ (Len(replies) = 2 /\ replies[2].kind = "resolved"
          /\ ~JSONParse(replies[2].value.text.s).ok)
         => Coded(outcome, {ERR_OBJECT_GENERATION_DECODE_FAILED})

\* C2: every rejection a caller of generateText or generateObject gets
\* carries a code of the closed set of its domain: a text code for
\* generateText, an object code for generateObject.
C2_RejectionsAreCoded ==
  outcome.kind = "rejected" =>
    Coded(outcome, IF call.fn = "generateText" THEN TEXT_GENERATION_ERROR_CODES
                   ELSE ObjectGenerationErrorCode)

\* C3: generateText and generateObject called with a prompt that is empty
\* after trimming reject with ERR_TEXT_PROMPT_INVALID and
\* ERR_OBJECT_PROMPT_INVALID as the error's code, and call no native method.
C3_BlankPromptRejectsCoded ==
  (call # NoCall /\ Blank(call.options.prompt)) =>
    /\ nativeCalls = <<>>
    /\ Coded(outcome, IF call.fn = "generateText" THEN {ERR_TEXT_PROMPT_INVALID}
                      ELSE {ERR_OBJECT_PROMPT_INVALID})

\* C4: Session.ask with an empty or whitespace-only prompt rejects with
\* ERR_TEXT_PROMPT_INVALID, calls no native generateText, and leaves the
\* session's id and instructions as they were.
C4_AskBlankPromptRejects ==
  [][ (last'.op = "ask" /\ Blank(last'.arg)) =>
        /\ last'.result.kind = "rejected"
        /\ isTextGenerationError(last'.result.error)
        /\ last'.result.error.code = ERR_TEXT_PROMPT_INVALID
        /\ last'.request = NoRequest
        /\ inflight' = inflight
        /\ sessionId' = sessionId
        /\ instructions' = instructions ]_vars

\* C4 witness: an established session with instructions has rejected a
\* whitespace-only prompt.
C4_Witness ==
  /\ last.op = "ask"
  /\ last.arg = Str(<<" ">>)
  /\ last.result.kind = "rejected"
  /\ sessionId # Undef
  /\ instructions # Undef

\* C5: when the native call of an ask succeeds, the session's id becomes the
\* sessionId of the response, whatever id was sent; when it fails, the id and
\* the instructions stay as they were and the caller gets the normalized error.
C5_AskOutcome ==
  [][ /\ last'.op = "resolve" =>
           /\ sessionId' = last'.arg.result.sessionId
           /\ last'.result = Resolved(last'.arg.result.text)
      /\ last'.op = "reject" =>
           /\ sessionId' = sessionId
           /\ instructions' = instructions
           /\ last'.result.kind = "rejected"
           /\ isTextGenerationError(last'.result.error)
           /\ last'.result.error.code \in TEXT_GENERATION_ERROR_CODES
           /\ last'.result.error = toTextGenerationError(last'.arg) ]_vars

\* C5 witness: a reply carried an id other than the one its request had sent,
\* and the session, already established, took it.
C5_Witness ==
  /\ last.op = "resolve"
  /\ last.arg.held # Undef
  /\ last.arg.sent # Undef
  /\ last.arg.sent # last.arg.result.sessionId
  /\ sessionId = last.arg.result.sessionId

\* C5 witness of the failure half, for an uninitialized session.
C5_WitnessFailure ==
  /\ last.op = "reject"
  /\ sessionId = Undef
  /\ last.result.error.code = ERR_TEXT_GENERATION_RUNTIME

\* C6: reset({instructions: I}) leaves the id X alone; the ask that follows it
\* sends system = I trimmed (none when I is blank) and sessionId = X; and a
\* successful reply with id Y makes the session's id Y.
C6_ResetThenAsk ==
  [][ /\ last'.op = "reset" => sessionId' = sessionId
      /\ (last.op = "reset" /\ Dispatched) =>
           /\ last'.request.system = Stripped(last.arg.value)
           /\ last'.request.sessionId = last.arg.id
      /\ last'.op = "resolve" => sessionId' = last'.arg.result.sessionId ]_vars

\* C6 witness: an ask right after a reset, on an established session, sent
\* instructions that had to be trimmed.
C6_Witness ==
  /\ last.op = "ask"
  /\ last.afterReset
  /\ last.request # NoRequest
  /\ last.request.sessionId # Undef
  /\ last.request.system = Str(<<"a">>)

\* C7: the next ask dispatched after destroy(), with no reset in between,
\* sends neither a sessionId nor system instructions, even when an earlier
\* ask's reply arrived only after the destroy.
C7_FreshAfterDestroy ==
  [][ (destroyed /\ Dispatched) =>
        /\ last'.request.sessionId = Undef
        /\ last'.request.system = Undef ]_vars

\* C8: create, reset and destroy call no native method, and every ask sends
\* as system the instructions the latest create, reset or destroy left.
C8_InstructionsAsLastSet ==
  [][ /\ last'.op \in {"create", "reset", "destroy"} => inflight' = inflight
      /\ Dispatched =>
           /\ last'.request.system = lastSet
           /\ inflight' = Append(inflight, last'.request) ]_vars

\* C8 witness: an ask sent instructions set before an earlier ask succeeded.
C8_Witness ==
  /\ last.op = "ask"
  /\ last.request # NoRequest
  /\ last.request.system # Undef
  /\ everSucceeded
  /\ ~last.afterReset

\* C9: an ask dispatched while another is in flight carries the id and the
\* instructions the session holds at that moment, and of overlapping asks the
\* reply that arrives last sets the session's id, in whatever order the asks
\* were started.
C9_LastReplyWins ==
  [][ /\ (Dispatched /\ inflight # <<>>) =>
           /\ last'.request.sessionId = sessionId
           /\ last'.request.system = instructions
           /\ inflight' = Append(inflight, last'.request)
      /\ (last'.op = "resolve" /\ (last'.arg.of > 1 \/ last'.arg.overtaken)) =>
           sessionId' = last'.arg.result.sessionId ]_vars

\* C9 witness: of two overlapping asks the one started first was answered
\* last, and its reply's id, different from the id held before, is the
\* session's.
C9_Witness ==
  /\ last.op = "resolve"
  /\ last.arg.overtaken
  /\ inflight = <<>>
  /\ last.arg.held # Undef
  /\ last.arg.held # last.arg.result.sessionId
  /\ sessionId = last.arg.result.sessionId

GuidedReplied(kind) ==
  /\ call.fn = "generateObject"
  /\ Len(replies) >= 1
  /\ nativeCalls[1].method = "generateObject"
  /\ replies[1].kind = kind

\* The text path of generateObject: its last native call is generateText,
\* and has replied.
TextPathReplied(kind) ==
  /\ call.fn = "generateObject"
  /\ Len(replies) = Len(nativeCalls)
  /\ Len(replies) >= 1
  /\ nativeCalls[Len(nativeCalls)].method = "generateText"
  /\ replies[Len(replies)].kind = kind

\* An error that says generation is unsupported, in either domain.
UnsupportedSignal(e) ==
  /\ e.cls # "primitive"
  /\ e.code \in {ERR_TEXT_GENERATION_UNSUPPORTED, ERR_OBJECT_GENERATION_UNSUPPORTED}

\* {"name":"milk"}, and the object it denotes
MilkText ==
  Str(<<Punct("{"), Lit(Atom("name")), Punct(":"),
        Lit(Str(<<"m", "i", "l", "k">>)), Punct("}")>>)
MilkObject == Obj([name |-> Str(<<"m", "i", "l", "k">>)])

\* What the text or json of a reply decodes to for the caller: the object
\* and the reply's session id when the parsed value conforms to the schema,
\* DECODE_FAILED when it does not.
DecodedAs(text, sid) ==
  LET parsed == JSONParse(text.s) IN
  /\ validateAgainstSchema(parsed.val, call.options.schema)
       => outcome = Resolved([object |-> parsed.val, sessionId |-> sid])
  /\ ~validateAgainstSchema(parsed.val, call.options.schema)
       => Coded(outcome, {ERR_OBJECT_GENERATION_DECODE_FAILED})
  /\ (text = MilkText /\ call.options.schema = NameSchema)
       => outcome = Resolved([object |-> MilkObject, sessionId |-> sid])
  /\ (text = Str(<<Punct("{"), Punct("}")>>) /\ call.options.schema = NameSchema)
       => outcome.kind = "rejected"

\* C11: generateObject called with a non-empty prompt and a malformed
\* schema rejects with an error whose code is ERR_OBJECT_SCHEMA_INVALID,
\* having called neither the native generateObject nor generateText.
C11_MalformedSchemaRejectsCoded ==
  (call.fn = "generateObject" /\ ~Blank(call.options.prompt)
     /\ ~validateJSONSchema(call.options.schema)) =>
    /\ nativeCalls = <<>>
    /\ Coded(outcome, {ERR_OBJECT_SCHEMA_INVALID})

\* C12: when the native generateObject fails with anything but an
\* unsupported signal, generateObject rejects at once with that failure and
\* never calls generateText.
C12_OtherFailuresPropagate ==
  (GuidedReplied("rejected") /\ ~UnsupportedSignal(replies[1].error)) =>
    /\ pc = "idle"
    /\ outcome = Rejected(replies[1].error)
    /\ Len(nativeCalls) = 1

C12_Witness ==
  /\ GuidedReplied("rejected")
  /\ replies[1].error.cls = "Error"
  /\ replies[1].error.code = ERR_TEXT_GENERATION_TIMEOUT
  /\ outcome = Rejected(replies[1].error)

\* C13: when the native generateObject succeeds with a JSON string,
\* generateObject resolves to the parsed value with the session id the
\* native call returned if the value conforms to the schema, rejects with
\* ERR_OBJECT_GENERATION_DECODE_FAILED if it does not, and in neither case
\* calls generateText.
C13_GuidedSuccess ==
  (GuidedReplied("resolved") /\ JSONParse(replies[1].value.json.s).ok) =>
    /\ pc = "idle"
    /\ Len(nativeCalls) = 1
    /\ DecodedAs(replies[1].value.json, replies[1].value.sessionId)

C13_Witness ==
  /\ GuidedReplied("resolved")
  /\ replies[1].value.json = MilkText
  /\ call.options.schema = NameSchema
  /\ outcome = Resolved([object |-> MilkObject, sessionId |-> Str(<<"n">>)])

C13_WitnessMismatch ==
  /\ GuidedReplied("resolved")
  /\ JSONParse(replies[1].value.json.s).ok
  /\ Coded(outcome, {ERR_OBJECT_GENERATION_DECODE_FAILED})

\* C14: on the text path of generateObject, a failure of generateText
\* reaches the caller as an error coded ERR_OBJECT_GENERATION_RUNTIME whose
\* message is the message of the error generateText threw.
C14_TextFailureRewrapped ==
  TextPathReplied("rejected") =>
    /\ pc = "idle"
    /\ Coded(outcome, {ERR_OBJECT_GENERATION_RUNTIME})
    /\ outcome.error.message =
         toTextGenerationError(replies[Len(replies)].error).message

C14_Witness ==
  /\ TextPathReplied("rejected")
  /\ replies[Len(replies)].error.code = ERR_TEXT_GENERATION_TIMEOUT
  /\ Coded(outcome, {ERR_OBJECT_GENERATION_RUNTIME})
  /\ outcome.error.message = Atom("timed out")

\* C15: on the text path of generateObject, text that does not parse as
\* JSON yields ERR_OBJECT_GENERATION_DECODE_FAILED, parsed text that does
\* not conform to the schema yields the same, and otherwise the call
\* resolves to the parsed value with the session id the text call returned.
C15_TextPathDecode ==
  TextPathReplied("resolved") =>
    LET reply == replies[Len(replies)].value IN
    /\ pc = "idle"
    /\ IF JSONParse(reply.text.s).ok
       THEN DecodedAs(reply.text, reply.sessionId)
       ELSE Coded(outcome, {ERR_OBJECT_GENERATION_DECODE_FAILED})

C15_Witness ==
  /\ TextPathReplied("resolved")
  /\ Len(replies) = 2
  /\ replies[2].value.text = MilkText
  /\ outcome = Resolved([object |-> MilkObject, sessionId |-> Str(<<"n">>)])

C15_WitnessNotJSON ==
  /\ TextPathReplied("resolved")
  /\ ~JSONParse(replies[Len(replies)].value.text.s).ok
  /\ Coded(outcome, {ERR_OBJECT_GENERATION_DECODE_FAILED})

\* The codes the documentation knows a text-generation error by.
KnownTextCodes == TEXT_GENERATION_ERROR_CODES \cup ModelAvailabilityCodes

\* The raw value is an object that carries this kind of code.
Carries(codes) == raw.cls # "primitive" /\ raw.code \in codes

FallbackMessage == Atom("Text generation failed.")

\* C16: for a raw error whose code is one of the known text-generation
\* codes, the model-availability codes among them, the normalizer returns
\* an error with that code, the same message and cause, and nativeDomain
\* and nativeCode when they are a string and a number.
C16_KnownCodesPreserved ==
  (Len(normalized) >= 1 /\ raw.cls # "TextGenerationError"
     /\ Carries(KnownTextCodes) /\ IsStr(raw.message)) =>
    /\ normalized[1].cls = "TextGenerationError"
    /\ normalized[1].code = raw.code
    /\ normalized[1].message = raw.message
    /\ normalized[1].cause = raw.cause
    /\ normalized[1].nativeCode =
         (IF raw.nativeCode.t = "number" THEN raw.nativeCode ELSE Undef)
    /\ normalized[1].nativeDomain =
         (IF raw.nativeDomain.t = "string" THEN raw.nativeDomain ELSE Undef)

\* C17: for a raw value that is not already normalized and carries no known
\* code, the normalizer returns an error coded ERR_TEXT_GENERATION_RUNTIME
\* whose message is the raw value's message field if it has one, else the
\* message of the underlying Error, else the fixed fallback, and whose cause
\* is the raw value if it is an Error and absent otherwise.
C17_RuntimeCoercion ==
  (Len(normalized) >= 1 /\ raw.cls # "TextGenerationError"
     /\ ~Carries(KnownTextCodes)) =>
    /\ normalized[1].cls = "TextGenerationError"
    /\ normalized[1].code = ERR_TEXT_GENERATION_RUNTIME
    /\ normalized[1].message =
         (IF raw.cls # "primitive" /\ IsStr(raw.message) /\ raw.message.s # <<>>
          THEN raw.message
          ELSE IF raw.cls = "Error" THEN raw.message
          ELSE FallbackMessage)
    /\ normalized[1].cause = (IF raw.cls = "Error" THEN raw ELSE Undef)

\* C18: the normalizer is idempotent: normalizing its own result gives that
\* result again, and an error that is already normalized is returned as it
\* is.
C18_Idempotent ==
  /\ \A i \in 2..Len(normalized) : normalized[i] = normalized[1]
  /\ (Len(normalized) >= 1 /\ raw.cls = "TextGenerationError")
       => normalized[1] = raw

C18_Witness ==
  /\ Len(normalized) >= 2
  /\ raw.cls = "Error"
  /\ raw.code = ERR_TEXT_GENERATION_TIMEOUT
  /\ normalized[1].cause = Atom("NSError")
  /\ normalized[2] = normalized[1]

C18_WitnessAlreadyNormalized ==
  /\ Len(normalized) >= 1
  /\ raw.cls = "TextGenerationError"
  /\ normalized[1] = raw

\* C19: on every platform without the native capability (web, Android, an
\* iOS below the required version), generateText and Session.ask called
\* with a valid prompt reject with ERR_TEXT_GENERATION_UNSUPPORTED.
C19_UnsupportedEverywhere ==
  platform # "ios" =>
    /\ (call.fn = "generateText" /\ ~Blank(call.options.prompt) /\ pc = "idle")
         => Coded(outcome, {ERR_TEXT_GENERATION_UNSUPPORTED})
    /\ last.op = "reject"
         => Coded(last.result, {ERR_TEXT_GENERATION_UNSUPPORTED})

\* The reason codes of an unavailable model.
ReasonCodes ==
  {"deviceNotEligible", "appleIntelligenceNotEnabled", "modelNotReady",
   "unknown", "unsupported"}

\* C20: getTextModelAvailability never rejects, and resolves to
\* {status: "available"} or to {status: "unavailable", reasonCode} with one
\* of the five reason codes; on a platform without the capability, and when
\* the native availability method is missing or fails while
\* isTextModelAvailable reports false, to {status: "unavailable",
\* reasonCode: "unsupported"}.
C20_AvailabilityShape ==
  /\ availability.result.kind # "rejected"
  /\ availability.pc = "done" =>
       /\ availability.result.kind = "resolved"
       /\ \/ availability.result.value = [status |-> "available"]
          \/ \E r \in ReasonCodes :
               availability.result.value = [status |-> "unavailable", reasonCode |-> r]
       /\ (platform # "ios" \/ (availability.fellBack /\ ~NativeIsTextModelAvailable))
            => availability.result.value =
                 [status |-> "unavailable", reasonCode |-> "unsupported"]

C20_Witness ==
  /\ availability.pc = "done"
  /\ availability.fellBack
  /\ platform = "ios"
  /\ modelAvailability = "modelNotReady"
  /\ availability.result.value =
       [status |-> "unavailable", reasonCode |-> "unsupported"]

C20_WitnessNative ==
  /\ availability.pc = "done"
  /\ ~availability.fellBack
  /\ modelAvailability = "other"
  /\ availability.result.value = [status |-> "unavailable", reasonCode |-> "unknown"]

\* How many native calls of this method the current call has made.
Invocations(method) ==
  Cardinality({i \in 1..Len(nativeCalls) : nativeCalls[i].method = method})

\* C29: within one generateObject call each native method is invoked at
\* most once; the native generateText is invoked only if the native
\* generateObject is absent or its call has already failed with the
\* unsupported signal; after a guided call that succeeded, generateText is
\* never invoked.
C29_NativeCallDiscipline ==
  call.fn = "generateObject" =>
    /\ Invocations("generateObject") <= 1
    /\ Invocations("generateText") <= 1
    /\ Invocations("generateText") = 1 =>
         \/ ~nativeSupported /\ Invocations("generateObject") = 0
         \/ /\ GuidedReplied("rejected")
            /\ UnsupportedSignal(replies[1].error)
            /\ nativeCalls[2].method = "generateText"
    /\ GuidedReplied("resolved") => Invocations("generateText") = 0

C29_Witness ==
  /\ GuidedReplied("rejected")
  /\ UnsupportedSignal(replies[1].error)
  /\ Len(nativeCalls) = 2
  /\ nativeCalls[2].method = "generateText"
  /\ Len(replies) = 2

C29_WitnessGuidedSuccess ==
  /\ GuidedReplied("resolved")
  /\ Coded(outcome, {ERR_OBJECT_GENERATION_DECODE_FAILED})
  /\ Len(nativeCalls) = 1

\* The five kinds of schema.
FiveKinds == {"string", "number", "boolean", "array", "object"}

\* The schema's type tag is one of the five kinds.
Tagged(s) ==
  /\ s.t = "object"
  /\ "type" \in DOMAIN s.props
  /\ \E kind \in FiveKinds : s.props.type = Str(<<kind>>)

Kind(s) == CHOOSE kind \in FiveKinds : s.props.type = Str(<<kind>>)

\* The schemas nested directly in a schema: an array's items and the values
\* of an object's properties.
Nested(s) ==
  IF ~Tagged(s) THEN {}
  ELSE IF Kind(s) = "array"
  THEN {IF "items" \in DOMAIN s.props THEN s.props.items ELSE Undef}
  ELSE IF Kind(s) = "object" /\ "properties" \in DOMAIN s.props
  THEN {s.props.properties.props[k] : k \in DOMAIN s.props.properties.props}
  ELSE {}

\* Some schema at some depth has an unrecognized or missing type tag.
RECURSIVE BadTagWithin(_)
BadTagWithin(s) == ~Tagged(s) \/ \E n \in Nested(s) : BadTagWithin(n)

\* A schema of the five kinds whose nested schemas are all well formed.
RECURSIVE WellFormed(_)
WellFormed(s) ==
  /\ Tagged(s)
  /\ Kind(s) = "array" => "items" \in DOMAIN s.props
  /\ Kind(s) = "object" => "properties" \in DOMAIN s.props
  /\ \A n \in Nested(s) : WellFormed(n)

\* C25: the schema-shape validator rejects every schema with an
\* unrecognized or missing type tag at any nesting depth, rejects
\* {type: "tuple"}, and rejects an object schema whose properties is
\* missing; it accepts every schema of the five kinds whose nested schemas
\* are all well formed.
C25_ShapeValidator ==
  shapeVerdict # "none" =>
    /\ BadTagWithin(givenSchema) => shapeVerdict = "threw"
    /\ givenSchema = Obj([type |-> Atom("tuple")]) => shapeVerdict = "threw"
    /\ (Tagged(givenSchema) /\ Kind(givenSchema) = "object"
          /\ "properties" \notin DOMAIN givenSchema.props) => shapeVerdict = "threw"
    /\ WellFormed(givenSchema) => shapeVerdict = "returned"

C25_Witness ==
  /\ shapeVerdict = "threw"
  /\ givenSchema =
       Obj([type |-> Atom("array"),
            items |-> Obj([type |-> Atom("object"),
                           properties |-> Obj([a |-> Obj([type |-> Atom("tuple")])])])])

C25_WitnessAccepted ==
  /\ shapeVerdict = "returned"
  /\ givenSchema =
       Obj([type |-> Atom("object"),
            properties |->
              Obj([a |-> Obj([type |-> Atom("array"),
                              items |-> Obj([type |-> Atom("boolean")])])])])

\* What a schema declares, with undefined for what it does not.
Declared(s, k) == IF k \in DOMAIN s.props THEN s.props[k] ELSE Undef

\* The value matches the well-formed schema: it is of the schema's kind and
\* violates no constraint the schema declares.
RECURSIVE Conforms(_, _)
Conforms(v, s) ==
  /\ v.t = Kind(s)
  /\ Kind(s) = "string" =>
       /\ Declared(s, "minLength") # Undef => Len(v.s) >= s.props.minLength.n
       /\ Declared(s, "maxLength") # Undef => Len(v.s) <= s.props.maxLength.n
       /\ Declared(s, "enum") # Undef =>
            \E i \in 1..Len(s.props.enum.items) : s.props.enum.items[i] = v
  /\ Kind(s) = "number" =>
       /\ Declared(s, "minimum") # Undef => v.n >= s.props.minimum.n
       /\ Declared(s, "maximum") # Undef => v.n <= s.props.maximum.n
  /\ Kind(s) = "array" =>
       /\ Declared(s, "minItems") # Undef => Len(v.items) >= s.props.minItems.n
       /\ Declared(s, "maxItems") # Undef => Len(v.items) <= s.props.maxItems.n
       /\ \A i \in 1..Len(v.items) : Conforms(v.items[i], s.props.items)
  /\ Kind(s) = "object" =>
       /\ Declared(s, "required") # Undef =>
            \A i \in 1..Len(s.props.required.items) :
              KeyOf(s.props.required.items[i]) \in DOMAIN v.props
       /\ \A k \in DOMAIN s.props.properties.props \cap DOMAIN v.props :
            Conforms(v.props[k], s.props.properties.props[k])

\* C26: for every schema the shape validator accepts, the value validator
\* returns true for a value that matches the schema and false for a value
\* that violates any constraint the schema declares (string enum,
\* minLength/maxLength, number minimum/maximum, array minItems/maxItems,
\* object required keys), at any nesting depth.
C26_ValueValidator ==
  valueVerdict # "none" =>
    (valueVerdict = "true" <=> Conforms(givenValue, givenSchema))

\* The store was asked for a session under an id it had stored.
StoredIdRequested == storeLast.op = "session" /\ storeLast.known

\* C27: in the native session store, a request whose sessionId is stored
\* with instructions different from the request's trimmed system replaces
\* the stored native session with a newly built one under the same id and
\* returns that id; a request whose system equals the stored instructions
\* returns the existing native session, and the store is left as it was.
C27_StoreRebuilds ==
  StoredIdRequested =>
    /\ storeLast.id = storeLast.sent
    /\ IF storeLast.before.instructions # Stripped(storeLast.system)
       THEN /\ storeLast.session > storeLast.builtBefore
            /\ storeLast.session # storeLast.before.session
            /\ entries[storeLast.sent] =
                 [session |-> storeLast.session,
                  instructions |-> Stripped(storeLast.system)]
       ELSE /\ storeLast.session = storeLast.before.session
            /\ entries[storeLast.sent] = storeLast.before
            /\ built = storeLast.builtBefore

C27_Witness ==
  /\ StoredIdRequested
  /\ storeLast.method = "generateText"
  /\ storeLast.before = [session |-> 1, instructions |-> Undef]
  /\ storeLast.system = Atom("a")
  /\ storeLast.session = 2
  /\ last.op = "ask"
  /\ last.afterReset

C27_WitnessKept ==
  /\ StoredIdRequested
  /\ storeLast.system = Str(<<" ", "a">>)
  /\ storeLast.before = [session |-> 1, instructions |-> Atom("a")]
  /\ storeLast.session = 1
  /\ built = 1

\* Two asks of the Session have been in flight at the same time.
Overlapped == storeLast.op # "none" /\ storeLast.overlapped

\* The native call the Session or another caller made returned the session
\* id its request carried.
ReturnsRequestedId ==
  /\ (last.op = "resolve" /\ last.arg.sent # Undef) =>
       last.arg.result.sessionId = last.arg.sent
  /\ (storeLast.op = "session" /\ storeLast.sent # Undef) =>
       storeLast.id = storeLast.sent

C28_WitnessObject ==
  /\ storeLast.op = "session"
  /\ storeLast.method = "generateObject"
  /\ storeLast.sent = Atom("a")
  /\ storeLast.id = Atom("a")
  /\ ~storeLast.known

\* The hook's i-th pending ask goes from ensureSession to its native call
\* in this step.
Dispatching(i) ==
  /\ Len(hookAsks') = Len(hookAsks)
  /\ i \in 1..Len(hookAsks)
  /\ hookAsks[i].stage = "ensure"
  /\ hookAsks'[i].stage = "native"

\* C21: in the useLLMSession hook, whenever the platform reports the text
\* model unavailable, a call to the hook's ask made at any time after mount
\* rejects with a normalized ERR_TEXT_GENERATION_UNSUPPORTED error, without
\* calling the native generateText and without changing history: no ask is
\* ever pending, and history stays empty.
C21_UnavailableAskRejects ==
  ~NativeIsTextModelAvailable =>
    /\ hookAsks = <<>>
    /\ history = <<>>
    /\ hookLast.op = "ask" =>
         /\ Coded(hookLast.result, {ERR_TEXT_GENERATION_UNSUPPORTED})
         /\ hookLast.result.error.cls = "TextGenerationError"

\* C22: in the useLLMSession hook, after setInstructions(v) is called, every
\* subsequent ask sends a native request whose system value is the trimmed
\* v (none when v is empty), in every hook state, autoCreate=false before the
\* first ask and after destroy included.
C22_SetInstructionsApplies ==
  [][\A i \in 1..MaxAsks :
       (Dispatching(i) /\ hookAsks[i].afterSet) =>
         hookAsks'[i].request.system = Stripped(promised.value)]_vars

\* C23: in the useLLMSession hook, destroy() forgets the current session
\* and clears history, and the native request of the next ask does not
\* carry the sessionId that the destroyed session held.
C23_DestroyForgets ==
  [][ /\ (sessionRef # 0 /\ sessionRef' = 0) => history' = <<>>
      /\ \A i \in 1..MaxAsks :
           (Dispatching(i) /\ hookAsks[i].afterDestroy /\ destroyedHeld.id # Undef) =>
             hookAsks'[i].request.sessionId # destroyedHeld.id ]_vars

\* An ask of the hook is settled in this step, with this outcome.
HookSettles(kind) ==
  /\ Len(hookAsks') < Len(hookAsks)
  /\ hookLast'.op = kind

\* C24: in the useLLMSession hook, an ask appends the user prompt when it
\* starts; when it succeeds it appends the model's response and leaves
\* status "idle" with no error; when its native call fails it leaves status
\* "error" with error set to the normalized {code, message}, and rethrows
\* the normalized error.
C24_AskOutcome ==
  [][ /\ \A i \in 1..MaxAsks :
           Dispatching(i) =>
             history' = Append(history, [role |-> "user", content |-> hookAsks[i].prompt])
      /\ HookSettles("resolved") =>
           /\ history' =
                Append(history, [role |-> "assistant", content |-> hookLast'.result.value])
           /\ hookStatus' = "idle"
           /\ hookError' = Undef
      /\ (HookSettles("rejected") /\ hookLast'.native) =>
           /\ hookStatus' = "error"
           /\ hookLast'.result.error.cls = "TextGenerationError"
           /\ hookLast'.result.error.code \in TEXT_GENERATION_ERROR_CODES
           /\ hookError' = [code |-> hookLast'.result.error.code,
                            message |-> hookLast'.result.error.message] ]_vars

\* C30: in the useLLMSession hook, after any ask, regenerate, reset and
\* destroy calls, failing and overlapping asks included, history strictly
\* alternates user and assistant entries starting with a user entry, and
\* every assistant entry is the response to the user entry right before it.
C30_HistoryAlternates ==
  \A i \in 1..Len(history) :
    IF i % 2 = 1 THEN history[i].role = "user"
    ELSE /\ history[i].role = "assistant"
         /\ history[i - 1].role = "user"
         /\ ~Blank(history[i - 1].content)
         /\ history[i].content = Str(<<"re">> \o Stripped(history[i - 1].content).s)

====
